---- MODULE Spec2Model ----
(***************************************************************************)
(* Model of the firmware-audit core: the dependency-graph builder          *)
(* (local_core/peripheral_graph.py), the clock-tree analyzer               *)
(* (local_core/clock_tree.py) and the rule engine                          *)
(* (rules_engine/rules_engine.py).                                         *)
(*                                                                         *)
(* Python values are represented as follows.                               *)
(*   str            a TLA+ string (TLC evaluates Len, SubSeq and \o on it) *)
(*   None / value   the sequences <<>> and <<value>>                       *)
(*   dict           a sequence of items <<key, value>> with distinct keys, *)
(*                  in insertion order                                     *)
(*   list           a sequence                                             *)
(*   exception      a record field exc, "" when nothing was raised         *)
(***************************************************************************)
EXTENDS Integers, Sequences, FiniteSets, TLC

VARIABLES model, hal, pc, g, builds, warnings, runs, ret, clocks, exc

vars == <<model, hal, pc, g, builds, warnings, runs, ret, clocks, exc>>

-----------------------------------------------------------------------------
(* Python built-ins on str, as the analyzed code uses them.                *)

None == <<>>

Some(v) == <<v>>

Min(a, b) == IF a < b THEN a ELSE b

\* s[i] as a one-character string
CharAt(s, i) == SubSeq(s, i, i)

\* s.startswith(p)
StartsWith(s, p) == Len(p) <= Len(s) /\ SubSeq(s, 1, Len(p)) = p

\* the slice s[i-1:j], cut at the end of s
Slice(s, i, j) == SubSeq(s, i, Min(j, Len(s)))

\* the string from position i to the end, s[i-1:]
From(s, i) == SubSeq(s, i, Len(s))

\* sub in s
Contains(s, sub) ==
    \E i \in 1..(Len(s) - Len(sub) + 1) : SubSeq(s, i, i + Len(sub) - 1) = sub

\* s.find(sub) + 1: the first position of sub in s, 0 when there is none
Find(s, sub) ==
    IF Contains(s, sub)
    THEN CHOOSE i \in 1..(Len(s) - Len(sub) + 1) :
            /\ SubSeq(s, i, i + Len(sub) - 1) = sub
            /\ \A j \in 1..(i - 1) : SubSeq(s, j, j + Len(sub) - 1) # sub
    ELSE 0

\* s.replace(old, new), old non-empty: every non-overlapping occurrence, left to right
RECURSIVE Replace(_, _, _)
Replace(s, old, new) ==
    LET i == Find(s, old)
    IN  IF i = 0 THEN s
        ELSE SubSeq(s, 1, i - 1) \o new \o Replace(From(s, i + Len(old)), old, new)

\* s.split(sep): the list of parts
RECURSIVE Split(_, _)
Split(s, sep) ==
    LET i == Find(s, sep)
    IN  IF i = 0 THEN <<s>>
        ELSE <<SubSeq(s, 1, i - 1)>> \o Split(From(s, i + Len(sep)), sep)

\* s.split(sep, 1): at most one split
Split1(s, sep) ==
    LET i == Find(s, sep)
    IN  IF i = 0 THEN <<s>>
        ELSE <<SubSeq(s, 1, i - 1), From(s, i + Len(sep))>>

\* sep.join(parts)
RECURSIVE Join(_, _)
Join(parts, sep) ==
    IF parts = <<>> THEN ""
    ELSE IF Len(parts) = 1 THEN parts[1]
    ELSE parts[1] \o sep \o Join(Tail(parts), sep)

Digits == <<"0", "1", "2", "3", "4", "5", "6", "7", "8", "9">>

IsDigit(c) == \E d \in 1..10 : Digits[d] = c

DigitVal(c) == (CHOOSE d \in 1..10 : Digits[d] = c) - 1

Upper == "ABCDEFGHIJKLMNOPQRSTUVWXYZ"

Lower == "abcdefghijklmnopqrstuvwxyz"

IsUpper(c) == Len(c) = 1 /\ Contains(Upper, c)

IsLower(c) == Len(c) = 1 /\ Contains(Lower, c)

\* a character of the regular-expression class \w
IsWordChar(c) == Len(c) = 1 /\ (IsDigit(c) \/ IsUpper(c) \/ IsLower(c) \/ c = "_")

\* a character of the regular-expression class \s
IsSpace(c) == c \in {" ", "\t", "\n", "\r", "\f"}

\* s.lower()
RECURSIVE ToLower(_)
ToLower(s) ==
    IF s = "" THEN ""
    ELSE LET c == CharAt(s, 1)
         IN  (IF IsUpper(c) THEN CharAt(Lower, Find(Upper, c)) ELSE c) \o ToLower(From(s, 2))

\* s.strip() for the whitespace of \s
RECURSIVE LStrip(_)
LStrip(s) == IF s # "" /\ IsSpace(CharAt(s, 1)) THEN LStrip(From(s, 2)) ELSE s

RECURSIVE RStrip(_)
RStrip(s) ==
    IF s # "" /\ IsSpace(CharAt(s, Len(s))) THEN RStrip(SubSeq(s, 1, Len(s) - 1)) ELSE s

Strip(s) == RStrip(LStrip(s))

\* the value of a digit string with grouping underscores already checked
RECURSIVE DecValue(_, _)
DecValue(s, acc) ==
    IF s = "" THEN acc
    ELSE IF CharAt(s, 1) = "_" THEN DecValue(From(s, 2), acc)
    ELSE DecValue(From(s, 2), acc * 10 + DigitVal(CharAt(s, 1)))

\* the literal int() accepts after the sign: digits, single underscores between them
IsDecLiteral(s) ==
    /\ s # ""
    /\ \A i \in 1..Len(s) : IsDigit(CharAt(s, i)) \/ CharAt(s, i) = "_"
    /\ IsDigit(CharAt(s, 1))
    /\ IsDigit(CharAt(s, Len(s)))
    /\ ~Contains(s, "__")

\* int(s) for a str s: [exc |-> "" , val |-> n] or [exc |-> "ValueError"]
PyInt(s) ==
    LET t    == Strip(s)
        neg  == StartsWith(t, "-")
        body == IF StartsWith(t, "-") \/ StartsWith(t, "+") THEN From(t, 2) ELSE t
    IN  IF IsDecLiteral(body)
        THEN [exc |-> "", val |-> IF neg THEN 0 - DecValue(body, 0) ELSE DecValue(body, 0)]
        ELSE [exc |-> "ValueError", val |-> 0]

\* str(n) for an int n
RECURSIVE NatToStr(_)
NatToStr(n) ==
    IF n < 10 THEN Digits[n + 1] ELSE NatToStr(n \div 10) \o Digits[(n % 10) + 1]

IntToStr(n) == IF n < 0 THEN "-" \o NatToStr(0 - n) ELSE NatToStr(n)

\* the longest prefix of s made of digits, the match of \d+ (or of \d*)
RECURSIVE LeadingDigits(_)
LeadingDigits(s) ==
    IF s # "" /\ IsDigit(CharAt(s, 1)) THEN CharAt(s, 1) \o LeadingDigits(From(s, 2)) ELSE ""

\* repr of a str without quotes or backslashes in it
Repr(s) == "'" \o s \o "'"

RECURSIVE MapRepr(_)
MapRepr(xs) == IF xs = <<>> THEN <<>> ELSE <<Repr(xs[1])>> \o MapRepr(Tail(xs))

\* str(list of str)
StrOfList(xs) == "[" \o Join(MapRepr(xs), ", ") \o "]"

RECURSIVE MapItemRepr(_)
MapItemRepr(kvs) ==
    IF kvs = <<>> THEN <<>>
    ELSE <<Repr(kvs[1][1]) \o ": " \o Repr(kvs[1][2])>> \o MapItemRepr(Tail(kvs))

\* str(dict of str to str)
StrOfDict(kvs) == "{" \o Join(MapItemRepr(kvs), ", ") \o "}"

-----------------------------------------------------------------------------
(* Python dict: a sequence of items <<key, value>>, keys distinct.          *)

EmptyDict == <<>>

\* an item is the pair <<key, value>>
Item(key, val) == <<key, val>>

Keys(d) == {d[i][1] : i \in 1..Len(d)}

\* key in d
Has(d, key) == \E i \in 1..Len(d) : d[i][1] = key

\* d[key], for a key of d
At(d, key) == d[CHOOSE i \in 1..Len(d) : d[i][1] = key][2]

\* d.get(key, default)
Get(d, key, default) == IF Has(d, key) THEN At(d, key) ELSE default

\* d.get(key) for a dict of plain values: None or the value
GetOpt(d, key) == IF Has(d, key) THEN Some(At(d, key)) ELSE None

\* d[key] = val: an existing key keeps its position
Put(d, key, val) ==
    IF Has(d, key)
    THEN [i \in 1..Len(d) |-> IF d[i][1] = key THEN Item(key, val) ELSE d[i]]
    ELSE Append(d, Item(key, val))

\* d.update(kw)
RECURSIVE Update(_, _)
Update(d, kw) ==
    IF kw = <<>> THEN d ELSE Update(Put(d, kw[1][1], kw[1][2]), Tail(kw))

\* bool(v) for an optional str: None and "" are false
Truthy(opt) == opt # None /\ opt[1] # ""

-----------------------------------------------------------------------------
(* networkx.DiGraph as PeripheralGraph uses it: nodes in insertion order   *)
(* with an attribute dict each, edges in insertion order with an attribute *)
(* dict each.                                                              *)

EmptyGraph == [nodes |-> EmptyDict, edges |-> EmptyDict]

HasNode(gr, n) == Has(gr.nodes, n)

HasEdge(gr, u, v) == Has(gr.edges, <<u, v>>)

\* DiGraph.add_node(n, **kw): a new node, or the attributes of an old one updated
AddNode(gr, n, kw) ==
    [gr EXCEPT !.nodes = Put(gr.nodes, n, Update(Get(gr.nodes, n, EmptyDict), kw))]

\* DiGraph.add_edge(u, v, **kw): missing end points are added without attributes
AddEdge(gr, u, v, kw) ==
    LET g1 == IF HasNode(gr, u) THEN gr ELSE AddNode(gr, u, EmptyDict)
        g2 == IF HasNode(g1, v) THEN g1 ELSE AddNode(g1, v, EmptyDict)
    IN  [g2 EXCEPT !.edges = Put(g2.edges, <<u, v>>,
                                 Update(Get(g2.edges, <<u, v>>, EmptyDict), kw))]

\* list(DiGraph.successors(n)): the heads of n's edges, in insertion order
RECURSIVE SuccOf(_, _)
SuccOf(es, n) ==
    IF es = <<>> THEN <<>>
    ELSE (IF es[1][1][1] = n THEN <<es[1][1][2]>> ELSE <<>>) \o SuccOf(Tail(es), n)

Successors(gr, n) == SuccOf(gr.edges, n)

\* d.get("type") of a node's attribute dict, "" standing for None
NodeType(gr, n) == Get(At(gr.nodes, n), "type", "")

-----------------------------------------------------------------------------
(* PeripheralGraph: the six steps of build_from_ioc.  Each step takes the  *)
(* builder's graph self.g and a table of the model and gives the graph it  *)
(* leaves in self.g and the exception it raised, if any.                   *)

Done(gr) == [g |-> gr, exc |-> ""]

Raised(gr, e) == [g |-> gr, exc |-> e]

ClockNames == <<"HSE", "SYSCLK", "APB1", "APB2">>

\* the rcc key read for each clock node
ClockFreqKeys ==
    <<Item("HSE_VALUE", "HSE"), Item("SYSCLKFreq_VALUE", "SYSCLK"),
      Item("APB1Freq_Value", "APB1"), Item("APB2Freq_Value", "APB2")>>

\* the builder without its clock nodes
AddNoClockNames(gr, names) == gr

RECURSIVE AddClockNames(_, _)
AddClockNames(gr, names) ==
    IF names = <<>> THEN gr
    ELSE AddClockNames(AddNode(gr, names[1], <<Item("type", "clock")>>), Tail(names))

\* self.g.nodes[node]["freq"] = int(rcc[key]) for each key present, in order
RECURSIVE AttachFreqs(_, _, _)
AttachFreqs(gr, rcc, keys) ==
    IF keys = <<>> THEN Done(gr)
    ELSE IF ~Has(rcc, keys[1][1]) THEN AttachFreqs(gr, rcc, Tail(keys))
    ELSE LET r == PyInt(At(rcc, keys[1][1]))
         IN  IF r.exc # "" THEN Raised(gr, r.exc)
             ELSE AttachFreqs(AddNode(gr, keys[1][2], <<Item("freq", r.val)>>),
                              rcc, Tail(keys))

AddClockNodes(gr, rcc) == AttachFreqs(AddClockNames(gr, ClockNames), rcc, ClockFreqKeys)

RECURSIVE AddPinAndSignalNodes(_, _)
AddPinAndSignalNodes(gr, pins) ==
    IF pins = <<>> THEN Done(gr)
    ELSE LET pin    == pins[1][1]
             info   == pins[1][2]
             signal == Get(info, "Signal", None)
             mode   == Get(info, "Mode", None)
             g1     == AddNode(gr, pin, <<Item("type", "pin")>>)
             g2     == AddNode(g1, signal[1], <<Item("type", "signal"), Item("mode", mode)>>)
             g3     == AddEdge(g2, signal[1], pin, <<Item("type", "signal_to_pin")>>)
         IN  AddPinAndSignalNodes(IF Truthy(signal) THEN g3 ELSE g1, Tail(pins))

RECURSIVE AddDmaEdges(_, _)
AddDmaEdges(gr, dma) ==
    IF dma = <<>> THEN Done(gr)
    ELSE LET periph   == dma[1][1]
             cfg      == dma[1][2]
             instance == GetOpt(cfg, "0.Instance")
             base     == Split(periph, "_")[1]
             g1 == AddNode(gr, instance[1], <<Item("type", "dma_stream")>>)
             g2 == AddNode(g1, periph, <<Item("type", "dma_request")>>)
             g3 == AddEdge(g2, instance[1], periph, <<Item("type", "dma_stream_to_request")>>)
             g4 == AddNode(g3, base, <<Item("type", "peripheral")>>)
             g5 == AddEdge(g4, periph, base, <<Item("type", "dma_to_peripheral")>>)
         IN  AddDmaEdges(IF Truthy(instance) THEN g5 ELSE gr, Tail(dma))

RECURSIVE AddExtiEdges(_, _)
AddExtiEdges(gr, pins) ==
    IF pins = <<>> THEN Done(gr)
    ELSE LET pin    == pins[1][1]
             signal == Get(pins[1][2], "Signal", Some(""))
             line   == Replace(signal[1], "GPXTI", "")
             exti_name == "EXTI" \o line
             g1 == AddNode(gr, exti_name, <<Item("type", "exti")>>)
             g2 == AddEdge(g1, exti_name, pin, <<Item("type", "exti_to_pin")>>)
         IN  IF signal = None THEN Raised(gr, "AttributeError")
             ELSE AddExtiEdges(IF StartsWith(signal[1], "GPXTI") THEN g2 ELSE gr, Tail(pins))

\* the timer step without base = signal.replace("S_", "")
RECURSIVE AddTimChannelEdgesKeepingPrefix(_, _)
AddTimChannelEdgesKeepingPrefix(gr, pins) ==
    IF pins = <<>> THEN Done(gr)
    ELSE LET pin    == pins[1][1]
             signal == Get(pins[1][2], "Signal", Some(""))
             base   == signal[1]
             parts  == Split1(base, "_")
             tim    == parts[1]
             g1 == AddNode(gr, tim, <<Item("type", "timer")>>)
             g2 == AddNode(g1, base, <<Item("type", "timer_channel")>>)
             g3 == AddEdge(g2, tim, base, <<Item("type", "timer_to_channel")>>)
             g4 == AddEdge(g3, base, pin, <<Item("type", "channel_to_pin")>>)
         IN  IF signal = None THEN Raised(gr, "AttributeError")
             ELSE IF StartsWith(signal[1], "S_TIM") \/ StartsWith(signal[1], "TIM")
             THEN AddTimChannelEdgesKeepingPrefix(IF Len(parts) = 2 THEN g4 ELSE gr, Tail(pins))
             ELSE AddTimChannelEdgesKeepingPrefix(gr, Tail(pins))

RECURSIVE AddTimChannelEdges(_, _)
AddTimChannelEdges(gr, pins) ==
    IF pins = <<>> THEN Done(gr)
    ELSE LET pin    == pins[1][1]
             signal == Get(pins[1][2], "Signal", Some(""))
             base   == Replace(signal[1], "S_", "")
             parts  == Split1(base, "_")
             tim    == parts[1]
             g1 == AddNode(gr, tim, <<Item("type", "timer")>>)
             g2 == AddNode(g1, base, <<Item("type", "timer_channel")>>)
             g3 == AddEdge(g2, tim, base, <<Item("type", "timer_to_channel")>>)
             g4 == AddEdge(g3, base, pin, <<Item("type", "channel_to_pin")>>)
         IN  IF signal = None THEN Raised(gr, "AttributeError")
             ELSE IF StartsWith(signal[1], "S_TIM") \/ StartsWith(signal[1], "TIM")
             THEN AddTimChannelEdges(IF Len(parts) = 2 THEN g4 ELSE gr, Tail(pins))
             ELSE AddTimChannelEdges(gr, Tail(pins))

RECURSIVE AddUsartPinEdges(_, _)
AddUsartPinEdges(gr, pins) ==
    IF pins = <<>> THEN Done(gr)
    ELSE LET pin    == pins[1][1]
             signal == Get(pins[1][2], "Signal", Some(""))
             parts  == Split(signal[1], "_")
             usart  == parts[1]
             role   == parts[2]
             g1 == AddNode(gr, usart, <<Item("type", "usart")>>)
             g2 == AddEdge(g1, usart, pin, <<Item("type", "usart_to_pin"), Item("role", role)>>)
         IN  IF signal = None THEN Raised(gr, "TypeError")
             ELSE IF Contains(signal[1], "USART")
             THEN AddUsartPinEdges(IF Len(parts) < 2 THEN gr ELSE g2, Tail(pins))
             ELSE AddUsartPinEdges(gr, Tail(pins))

\* the table of the model a step reads
StepTable(i, m) ==
    CASE i = 1 -> Get(m, "rcc", EmptyDict)
      [] i = 3 -> Get(m, "dma", EmptyDict)
      [] OTHER -> Get(m, "pins", EmptyDict)

\* step i of build_from_ioc
Step(i, gr, table) ==
    CASE i = 1 -> AddClockNodes(gr, table)
      [] i = 2 -> AddPinAndSignalNodes(gr, table)
      [] i = 3 -> AddDmaEdges(gr, table)
      [] i = 4 -> AddExtiEdges(gr, table)
      [] i = 5 -> AddTimChannelEdges(gr, table)
      [] i = 6 -> AddUsartPinEdges(gr, table)

\* the steps in the given order; an exception ends the build where it is raised
RECURSIVE RunSteps(_, _, _)
RunSteps(order, gr, m) ==
    IF order = <<>> THEN Done(gr)
    ELSE LET r == Step(order[1], gr, StepTable(order[1], m))
         IN  IF r.exc # "" THEN r ELSE RunSteps(Tail(order), r.g, m)

BuildOrder == <<1, 2, 3, 4, 5, 6>>

\* build_from_ioc(model) on a builder whose graph is gr
BuildFromIoc(gr, m) == RunSteps(BuildOrder, gr, m)

-----------------------------------------------------------------------------
(* ClockTreeAnalyzer                                                       *)

ClockOutKeys ==
    <<Item("HSE", "HSE_VALUE"), Item("SYSCLK", "SYSCLKFreq_VALUE"),
      Item("APB1", "APB1Freq_Value"), Item("APB2", "APB2Freq_Value"),
      Item("PLLCLK", "PLLCLKFreq_Value")>>

\* as_int without its except ValueError clause
AsIntUnguarded(rcc, key) ==
    IF ~Has(rcc, key) THEN None ELSE Some(PyInt(At(rcc, key)).val)

\* as_int(key): None for a missing key and for a value int() rejects
AsInt(rcc, key) ==
    LET r == PyInt(At(rcc, key))
    IN  IF ~Has(rcc, key) THEN None
        ELSE IF r.exc = "ValueError" THEN None
        ELSE Some(r.val)

\* compute(): the Clock Result, a dict of optional frequencies
Compute(rcc) ==
    [i \in 1..Len(ClockOutKeys) |-> Item(ClockOutKeys[i][1], AsInt(rcc, ClockOutKeys[i][2]))]

\* every instance taken to be on the primary bus
BusAlwaysApb1(name) == "APB1"

\* the bus feeding a USART instance
BusOf(name) == IF name \in {"USART1", "USART6"} THEN "APB2" ELSE "APB1"

\* status of a baud rate against the frequency of its bus
BaudStatus(baud, bus_freq) ==
    IF bus_freq = None \/ bus_freq[1] = 0 THEN "unknown"
    ELSE IF baud >= bus_freq[1] \div 8 THEN "suspicious"
    ELSE "ok"

RECURSIVE BaudResults(_, _, _)
BaudResults(results, clk, usart_block) ==
    IF usart_block = <<>> THEN results
    ELSE LET name     == usart_block[1][1]
             cfg      == usart_block[1][2]
             baud_key == name \o ".BaudRate"
             r        == PyInt(At(cfg, baud_key))
             bus      == BusOf(name)
             bus_freq == Get(clk, bus, None)
             entry    == [baud |-> r.val, bus |-> bus, bus_freq |-> bus_freq,
                          status |-> BaudStatus(r.val, bus_freq)]
         IN  IF ~Has(cfg, baud_key) THEN BaudResults(results, clk, Tail(usart_block))
             ELSE IF r.exc = "ValueError" THEN BaudResults(results, clk, Tail(usart_block))
             ELSE BaudResults(Put(results, name, entry), clk, Tail(usart_block))

\* validate_usart_baud(usart_block)
ValidateUsartBaud(rcc, usart_block) == BaudResults(EmptyDict, Compute(rcc), usart_block)

-----------------------------------------------------------------------------
(* RulesEngine.  A rule takes the model m, the graph gr and the code facts *)
(* h and gives the diagnostics it appends to self.warnings, in order, and  *)
(* the exception that ended it, if any.                                    *)

Diag(rule, message, suggestion) ==
    [rule |-> rule, message |-> message, suggestion |-> suggestion]

DiagCode(rule, message, suggestion, code) ==
    [rule |-> rule, message |-> message, suggestion |-> suggestion, code |-> code]

Appended(ws) == [w |-> ws, exc |-> ""]

Aborted(ws, e) == [w |-> ws, exc |-> e]

\* [name for name, cfg in nvic.items() if cfg.get("enabled")]
RECURSIVE EnabledIrqs(_)
EnabledIrqs(nvic) ==
    IF nvic = <<>> THEN <<>>
    ELSE (IF Get(nvic[1][2], "enabled", FALSE) THEN <<nvic[1][1]>> ELSE <<>>)
         \o EnabledIrqs(Tail(nvic))

Range(xs) == {xs[i] : i \in 1..Len(xs)}

\* the interrupt serving an EXTI line
\* one interrupt name per line, without the grouping of lines 5 and up
ExtiIrqNamePerLine(line) == "EXTI" \o IntToStr(line) \o "_IRQn"

ExtiIrqName(line) ==
    IF line >= 10 THEN "EXTI15_10_IRQn"
    ELSE IF line >= 5 THEN "EXTI9_5_IRQn"
    ELSE "EXTI" \o IntToStr(line) \o "_IRQn"

RECURSIVE ExtiWithoutIrq(_, _, _)
ExtiWithoutIrq(nodes, gr, enabled_irqs) ==
    IF nodes = <<>> THEN <<>>
    ELSE LET exti     == nodes[1][1]
             digits   == LeadingDigits(From(exti, 5))
             line     == PyInt(digits).val
             irq_name == ExtiIrqName(line)
             pins     == Successors(gr, exti)
             pins_str == IF pins # <<>> THEN Join(pins, ", ") ELSE "unknown pins"
             d == DiagCode("exti_without_irq",
                     exti \o " mapped to " \o pins_str \o " but " \o irq_name
                          \o " is not enabled in NVIC",
                     "Enable " \o irq_name \o " in NVIC in CubeMX or via HAL.",
                     "// Enable EXTI interrupt for line " \o IntToStr(line) \o "\n"
                          \o "HAL_NVIC_SetPriority(" \o irq_name \o ", 0, 0);\n"
                          \o "HAL_NVIC_EnableIRQ(" \o irq_name \o ");")
             rest == ExtiWithoutIrq(Tail(nodes), gr, enabled_irqs)
         IN  IF Get(nodes[1][2], "type", "") # "exti" THEN rest
             ELSE IF ~(StartsWith(exti, "EXTI") /\ digits # "") THEN rest
             ELSE IF irq_name \notin enabled_irqs THEN <<d>> \o rest
             ELSE rest

\* rule 1
RuleExtiWithoutIrq(m, gr, h) ==
    Appended(ExtiWithoutIrq(gr.nodes, gr, Range(EnabledIrqs(Get(m, "nvic", EmptyDict)))))

\* rule 2 reporting a stream only from its third request on
RECURSIVE DmaStreamReusedByThree(_, _)
DmaStreamReusedByThree(nodes, gr) ==
    IF nodes = <<>> THEN <<>>
    ELSE LET node == nodes[1][1]
             succ == Successors(gr, node)
             d == Diag("dma_stream_reused",
                     node \o " used by multiple DMA requests: " \o Join(succ, ", "),
                     "Reassign one of these requests to a different DMA stream.")
         IN  (IF Get(nodes[1][2], "type", "") = "dma_stream" /\ Len(succ) > 2
              THEN <<d>> ELSE <<>>) \o DmaStreamReusedByThree(Tail(nodes), gr)

RECURSIVE DmaStreamReused(_, _)
DmaStreamReused(nodes, gr) ==
    IF nodes = <<>> THEN <<>>
    ELSE LET node == nodes[1][1]
             succ == Successors(gr, node)
             d == Diag("dma_stream_reused",
                     node \o " used by multiple DMA requests: " \o Join(succ, ", "),
                     "Reassign one of these requests to a different DMA stream.")
         IN  (IF Get(nodes[1][2], "type", "") = "dma_stream" /\ Len(succ) > 1
              THEN <<d>> ELSE <<>>) \o DmaStreamReused(Tail(nodes), gr)

\* rule 2
RuleDmaStreamReused(m, gr, h) == Appended(DmaStreamReused(gr.nodes, gr))

RECURSIVE UsartNoInit(_, _)
UsartNoInit(usart_blocks, called_inits) ==
    IF usart_blocks = <<>> THEN <<>>
    ELSE LET usart_name == usart_blocks[1][1]
             func == "MX_" \o usart_name \o "_Init"
             d == DiagCode("usart_no_init_call",
                     usart_name \o " configured in .ioc but " \o func
                          \o " not called in main.c",
                     "Call " \o func \o "() during system initialization before using "
                          \o usart_name \o ".",
                     func \o "();")
         IN  (IF func \notin called_inits THEN <<d>> ELSE <<>>)
             \o UsartNoInit(Tail(usart_blocks), called_inits)

\* rule 3
RuleUsartConfiguredButNoInit(m, gr, h) ==
    Appended(UsartNoInit(Get(m, "usart", EmptyDict), Range(Get(h, "mx_inits", <<>>))))

RECURSIVE IrqNoHandler(_, _)
IrqNoHandler(enabled_irqs, handlers) ==
    IF enabled_irqs = <<>> THEN <<>>
    ELSE LET irq     == enabled_irqs[1]
             handler == Replace(irq, "_IRQn", "_IRQHandler")
             d == Diag("irq_no_handler",
                     irq \o " enabled in NVIC but " \o handler \o " not found in code",
                     "Implement " \o handler \o "() in your interrupt source file.")
         IN  (IF handler \notin handlers THEN <<d>> ELSE <<>>)
             \o IrqNoHandler(Tail(enabled_irqs), handlers)

\* rule 4
RuleIrqEnabledButNoHandler(m, gr, h) ==
    Appended(IrqNoHandler(EnabledIrqs(Get(m, "nvic", EmptyDict)),
                          Range(Get(h, "irq_handlers", <<>>))))

\* the diagnostics of one pin; mode is a str here
PinModeDiags(pin, signal, mode) ==
    (IF Contains(signal, "USART") /\ ~Contains(mode, "AF") /\ ~Contains(mode, "Synchronous")
     THEN <<Diag("pin_mode_mismatch",
                 pin \o " used for " \o signal \o " but not in Alternate Function mode",
                 "Set " \o pin \o " to AF mode for " \o signal \o " in CubeMX.")>>
     ELSE <<>>)
    \o
    (IF (Contains(signal, "TIM") \/ Contains(signal, "S_TIM")) /\ ~Contains(mode, "AF")
     THEN <<Diag("pin_mode_mismatch",
                 pin \o " used for " \o signal \o " but not in AF mode",
                 "Set " \o pin \o " to AF mode for " \o signal \o ".")>>
     ELSE <<>>)
    \o
    (IF Contains(signal, "ADC") /\ ~Contains(mode, "Analog")
     THEN <<Diag("pin_mode_mismatch",
                 pin \o " used for ADC but not in Analog mode",
                 "Set " \o pin \o " to Analog mode for ADC input.")>>
     ELSE <<>>)

RECURSIVE PinModeMismatch(_, _)
PinModeMismatch(pins, acc) ==
    IF pins = <<>> THEN Appended(acc)
    ELSE LET pin    == pins[1][1]
             signal == Get(pins[1][2], "Signal", None)
             mode   == Get(pins[1][2], "Mode", Some(""))
             \* a membership test on mode is reached: mode must not be None
             reads_mode == \/ Contains(signal[1], "USART")
                           \/ Contains(signal[1], "TIM")
                           \/ Contains(signal[1], "ADC")
         IN  IF ~Truthy(signal) THEN PinModeMismatch(Tail(pins), acc)
             ELSE IF mode = None /\ reads_mode THEN Aborted(acc, "TypeError")
             ELSE IF mode = None THEN PinModeMismatch(Tail(pins), acc)
             ELSE PinModeMismatch(Tail(pins), acc \o PinModeDiags(pin, signal[1], mode[1]))

\* rule 5
RulePinModeMismatch(m, gr, h) == PinModeMismatch(Get(m, "pins", EmptyDict), <<>>)

RECURSIVE UsartRxDmaStart(_, _, _)
UsartRxDmaStart(usart_blocks, dma, hal_calls) ==
    IF usart_blocks = <<>> THEN <<>>
    ELSE LET usart == usart_blocks[1][1]
             d == DiagCode("missing_hal_start",
                     usart \o " uses DMA RX but HAL_UART_Receive_DMA() not called",
                     "Call HAL_UART_Receive_DMA(&h" \o ToLower(usart) \o ", buffer, size).",
                     "HAL_UART_Receive_DMA(&h" \o ToLower(usart) \o ", rx_buffer, RX_SIZE);")
         IN  (IF Has(dma, usart \o "_RX") /\ "HAL_UART_Receive_DMA" \notin hal_calls
              THEN <<d>> ELSE <<>>) \o UsartRxDmaStart(Tail(usart_blocks), dma, hal_calls)

RECURSIVE TimPwmStart(_, _)
TimPwmStart(tim_blocks, hal_calls) ==
    IF tim_blocks = <<>> THEN <<>>
    ELSE LET tim == tim_blocks[1][1]
             d == Diag("missing_hal_start",
                     tim \o " configured for PWM but HAL_TIM_PWM_Start() not called",
                     "Call HAL_TIM_PWM_Start(&h" \o ToLower(tim) \o ", TIM_CHANNEL_X).")
         IN  (IF Contains(StrOfDict(tim_blocks[1][2]), "CH") /\ "HAL_TIM_PWM_Start" \notin hal_calls
              THEN <<d>> ELSE <<>>) \o TimPwmStart(Tail(tim_blocks), hal_calls)

RECURSIVE AdcStartIt(_, _)
AdcStartIt(adc_blocks, hal_calls) ==
    IF adc_blocks = <<>> THEN <<>>
    ELSE LET adc == adc_blocks[1][1]
             d == DiagCode("missing_hal_start",
                     adc \o " configured but HAL_ADC_Start_IT() not called",
                     "Call HAL_ADC_Start_IT(&h" \o ToLower(adc) \o ").",
                     "HAL_ADC_Start_IT(&h" \o ToLower(adc) \o ");")
         IN  (IF Contains(StrOfDict(adc_blocks[1][2]), "SamplingTime")
                 /\ "HAL_ADC_Start_IT" \notin hal_calls
              THEN <<d>> ELSE <<>>) \o AdcStartIt(Tail(adc_blocks), hal_calls)

\* rule 6
RuleMissingHalStartFunctions(m, gr, h) ==
    LET hal_calls == Range(Get(h, "hal_calls", <<>>))
    IN  Appended(UsartRxDmaStart(Get(m, "usart", EmptyDict), Get(m, "dma", EmptyDict), hal_calls)
                 \o TimPwmStart(Get(m, "tim", EmptyDict), hal_calls)
                 \o AdcStartIt(Get(m, "adc", EmptyDict), hal_calls))

\* rule 7
\* a rule that reports nothing
RuleSilent(m, gr, h) == Appended(<<>>)

RuleMissingCallbacks(m, gr, h) ==
    LET callbacks == Range(Get(h, "callbacks", <<>>))
    IN  Appended(
          (IF "HAL_GPIO_EXTI_Callback" \notin callbacks
           THEN <<Diag("missing_callback",
                       "EXTI interrupts enabled but HAL_GPIO_EXTI_Callback() not implemented",
                       "Implement HAL_GPIO_EXTI_Callback(uint16_t GPIO_Pin).")>>
           ELSE <<>>)
          \o
          (IF "HAL_ADC_ConvCpltCallback" \notin callbacks
           THEN <<Diag("missing_callback",
                       "ADC interrupt mode enabled but HAL_ADC_ConvCpltCallback() missing",
                       "Implement HAL_ADC_ConvCpltCallback(ADC_HandleTypeDef *hadc).")>>
           ELSE <<>>)
          \o
          (IF "HAL_TIM_PeriodElapsedCallback" \notin callbacks
           THEN <<Diag("missing_callback",
                       "Timer interrupt enabled but HAL_TIM_PeriodElapsedCallback() missing",
                       "Implement HAL_TIM_PeriodElapsedCallback(TIM_HandleTypeDef *htim).")>>
           ELSE <<>>))

\* the bus frequency below which rule 8 reports a USART
LowBusHz == 8000000

\* int(clocks.get(key, 0))
BusFreqOrZero(clks, key) ==
    IF Has(clks, key) THEN PyInt(At(clks, key)) ELSE [exc |-> "", val |-> 0]

RECURSIVE ClockDomainMismatch(_, _, _)
ClockDomainMismatch(usart_blocks, apb1, apb2) ==
    IF usart_blocks = <<>> THEN <<>>
    ELSE LET usart == usart_blocks[1][1]
             bus   == IF usart \in {"USART1", "USART6"} THEN apb2 ELSE apb1
             d == Diag("clock_domain_mismatch",
                     usart \o " running on very low bus clock (" \o IntToStr(bus) \o " Hz)",
                     "Increase APB clock or lower baud rate.")
         IN  (IF bus < LowBusHz THEN <<d>> ELSE <<>>)
             \o ClockDomainMismatch(Tail(usart_blocks), apb1, apb2)

\* rule 8
RuleClockDomainMismatch(m, gr, h) ==
    LET clks == Get(m, "rcc", EmptyDict)
        apb1 == BusFreqOrZero(clks, "APB1Freq_Value")
        apb2 == BusFreqOrZero(clks, "APB2Freq_Value")
    IN  IF apb1.exc # "" THEN Aborted(<<>>, apb1.exc)
        ELSE IF apb2.exc # "" THEN Aborted(<<>>, apb2.exc)
        ELSE Appended(ClockDomainMismatch(Get(m, "usart", EmptyDict), apb1.val, apb2.val))

\* one loop of rule 9 over a family of parameter blocks
RECURSIVE Unused(_, _, _, _)
Unused(blocks, calls_str, tail, remedy) ==
    IF blocks = <<>> THEN <<>>
    ELSE LET name == blocks[1][1]
             d == Diag("unused_peripheral", name \o tail[1],
                       remedy[1] \o name \o remedy[2])
         IN  (IF ~Contains(calls_str, name) THEN <<d>> ELSE <<>>)
             \o Unused(Tail(blocks), calls_str, tail, remedy)

\* rule 9
RulePeripheralEnabledButUnused(m, gr, h) ==
    LET calls_str == StrOfList(Get(h, "hal_calls", <<>>))
    IN  Appended(
          Unused(Get(m, "usart", EmptyDict), calls_str,
                 <<" configured in .ioc but never used in code">>,
                 <<"Remove ", " from CubeMX or use HAL_UART_Transmit/Receive.">>)
          \o
          Unused(Get(m, "adc", EmptyDict), calls_str,
                 <<" configured but no HAL_ADC_Start() or HAL_ADC_Start_IT() found">>,
                 <<"Remove ", " or start conversions in code.">>)
          \o
          Unused(Get(m, "tim", EmptyDict), calls_str,
                 <<" configured but no HAL_TIM_* calls found">>,
                 <<"Remove ", " or start the timer in code.">>))

\* re.search of  <head> \s* \( [ \s* <arg> \s* \) ]  in body; arg = None for the
\* pattern that ends at the opening parenthesis.  head and arg hold no
\* character that is special in a regular expression and no white space.
CallSearch(body, head, arg) ==
    \E i \in 1..Len(body) :
        LET r1 == LStrip(From(body, i + Len(head)))
            r2 == LStrip(From(r1, 2))
            r3 == LStrip(From(r2, Len(arg[1]) + 1))
        IN  /\ Slice(body, i, i + Len(head) - 1) = head
            /\ StartsWith(r1, "(")
            /\ arg # None => (StartsWith(r2, arg[1]) /\ StartsWith(r3, ")"))

\* the checks of rule 10 without precedence: a request whose interrupt is not
\* enabled is also checked against the body
RECURSIVE DmaIrqWiringBothChecks(_, _, _)
DmaIrqWiringBothChecks(dma_cfg, nvic, dma_body) ==
    IF dma_cfg = <<>> THEN <<>>
    ELSE LET instance   == GetOpt(dma_cfg[1][2], "0.Instance")
             irq_name   == instance[1] \o "_IRQn"
             nvic_entry == Get(nvic, irq_name, EmptyDict)
             d1 == DiagCode("dma_irq_not_enabled", irq_name, "", "")
             d2 == DiagCode("dma_irq_not_enabled_in_mx_dma_init", irq_name, "", "")
             rest == DmaIrqWiringBothChecks(Tail(dma_cfg), nvic, dma_body)
         IN  IF ~Truthy(instance) THEN rest
             ELSE (IF nvic_entry = EmptyDict \/ ~Get(nvic_entry, "enabled", FALSE)
                   THEN <<d1>> ELSE <<>>)
                  \o (IF ~CallSearch(dma_body, "HAL_NVIC_EnableIRQ", Some(irq_name))
                      THEN <<d2>> ELSE <<>>)
                  \o rest

RECURSIVE DmaIrqWiring(_, _, _)
DmaIrqWiring(dma_cfg, nvic, dma_body) ==
    IF dma_cfg = <<>> THEN <<>>
    ELSE LET req        == dma_cfg[1][1]
             instance   == GetOpt(dma_cfg[1][2], "0.Instance")
             irq_name   == instance[1] \o "_IRQn"
             nvic_entry == Get(nvic, irq_name, EmptyDict)
             d1 == DiagCode("dma_irq_not_enabled",
                      instance[1] \o " used for " \o req \o " but " \o irq_name
                           \o " is not enabled in NVIC",
                      "Enable " \o irq_name \o " in NVIC in CubeMX or via HAL_NVIC_EnableIRQ.",
                      "HAL_NVIC_SetPriority(" \o irq_name \o ", 0, 0);\n"
                           \o "HAL_NVIC_EnableIRQ(" \o irq_name \o ");")
             d2 == DiagCode("dma_irq_not_enabled_in_mx_dma_init",
                      irq_name \o " enabled in NVIC but MX_DMA_Init() does not call "
                           \o "HAL_NVIC_EnableIRQ(" \o irq_name \o ")",
                      "Add HAL_NVIC_EnableIRQ(" \o irq_name \o "); inside MX_DMA_Init().",
                      "HAL_NVIC_EnableIRQ(" \o irq_name \o ");")
             rest == DmaIrqWiring(Tail(dma_cfg), nvic, dma_body)
         IN  IF ~Truthy(instance) THEN rest
             ELSE IF nvic_entry = EmptyDict \/ ~Get(nvic_entry, "enabled", FALSE)
             THEN <<d1>> \o rest
             ELSE IF ~CallSearch(dma_body, "HAL_NVIC_EnableIRQ", Some(irq_name))
             THEN <<d2>> \o rest
             ELSE rest

\* rule 10 without its test for a missing MX_DMA_Init body
RuleDmaIrqWiringOnly(m, gr, h) ==
    Appended(DmaIrqWiring(Get(m, "dma", EmptyDict), Get(m, "nvic", EmptyDict),
                          Get(Get(h, "mx_init_bodies", EmptyDict), "DMA", "")))

\* rule 10
RuleDmaIrqNotEnabledInMxDmaInit(m, gr, h) ==
    LET dma_cfg   == Get(m, "dma", EmptyDict)
        nvic      == Get(m, "nvic", EmptyDict)
        mx_bodies == Get(h, "mx_init_bodies", EmptyDict)
    IN  IF ~Has(mx_bodies, "DMA")
        THEN Appended(IF dma_cfg # EmptyDict
                      THEN <<Diag("dma_irq_no_mx_dma_init",
                                  "DMA configured in .ioc but no MX_DMA_Init() function found in code",
                                  "Ensure MX_DMA_Init() exists and is called from main.c.")>>
                      ELSE <<>>)
        ELSE Appended(DmaIrqWiring(dma_cfg, nvic, At(mx_bodies, "DMA")))

RECURSIVE UsartClockEnable(_, _)
UsartClockEnable(usart_blocks, mx_bodies) ==
    IF usart_blocks = <<>> THEN <<>>
    ELSE LET usart == usart_blocks[1][1]
             body  == GetOpt(mx_bodies, usart)
             d1 == Diag("usart_no_mx_init_body",
                      usart \o " configured in .ioc but MX_" \o usart
                            \o "_Init() body not found in code",
                      "Ensure MX_" \o usart \o "_Init() is present in main project sources.")
             d2 == DiagCode("usart_clock_not_enabled",
                      usart \o " configured but MX_" \o usart
                            \o "_Init() does not enable its RCC clock",
                      "Add __HAL_RCC_" \o usart \o "_CLK_ENABLE(); at the start of MX_"
                            \o usart \o "_Init().",
                      "__HAL_RCC_" \o usart \o "_CLK_ENABLE();")
             rest == UsartClockEnable(Tail(usart_blocks), mx_bodies)
         IN  IF ~Truthy(body) THEN <<d1>> \o rest
             ELSE IF ~CallSearch(body[1], "__HAL_RCC_" \o usart \o "_CLK_ENABLE", None)
             THEN <<d2>> \o rest
             ELSE rest

\* rule 11
RuleUsartClockNotEnabledInMxUsartInit(m, gr, h) ==
    Appended(UsartClockEnable(Get(m, "usart", EmptyDict), Get(h, "mx_init_bodies", EmptyDict)))

\* \b at the gap before position i of s: exactly one side is a word character
WordBoundary(s, i) ==
    (i > 1 /\ IsWordChar(CharAt(s, i - 1))) # (i <= Len(s) /\ IsWordChar(CharAt(s, i)))

\* word w stands at position i of s between two word boundaries
WordAt(s, i, w) ==
    /\ Slice(s, i, i + Len(w) - 1) = w
    /\ WordBoundary(s, i)
    /\ WordBoundary(s, i + Len(w))

\* re.search(rf"\b{port}\b.*\b{pin}\b", body): both words on one line, port first
PortPinSearch(body, port, pin) ==
    \E i \in 1..Len(body) :
        /\ WordAt(body, i, port)
        /\ \E j \in (i + Len(port))..Len(body) :
              /\ WordAt(body, j, pin)
              /\ ~Contains(SubSeq(body, i + Len(port), j - 1), "\n")

\* the pin check of rule 12 without its test of the signal's family
RECURSIVE GpioNotInitializedAnySignal(_, _)
GpioNotInitializedAnySignal(pins, gpio_body) ==
    IF pins = <<>> THEN <<>>
    ELSE LET pin    == pins[1][1]
             signal == Get(pins[1][2], "Signal", None)
             d == DiagCode("gpio_not_initialized",
                     pin \o " used for " \o signal[1]
                         \o " but not initialized in MX_GPIO_Init()", "", "")
             rest == GpioNotInitializedAnySignal(Tail(pins), gpio_body)
         IN  IF ~Truthy(signal) THEN rest
             ELSE IF ~PortPinSearch(gpio_body, Slice(pin, 1, 2), pin)
             THEN <<d>> \o rest
             ELSE rest

RECURSIVE GpioNotInitialized(_, _)
GpioNotInitialized(pins, gpio_body) ==
    IF pins = <<>> THEN <<>>
    ELSE LET pin    == pins[1][1]
             signal == Get(pins[1][2], "Signal", None)
             port   == Slice(pin, 1, 2)
             sig    == signal[1]
             d == DiagCode("gpio_not_initialized",
                     pin \o " used for " \o sig \o " but not initialized in MX_GPIO_Init()",
                     "Add GPIO init code for " \o pin \o " inside MX_GPIO_Init().",
                     "GPIO_InitTypeDef GPIO_InitStruct = {0};\n"
                        \o "__HAL_RCC_" \o port \o "_CLK_ENABLE();\n"
                        \o "GPIO_InitStruct.Pin = " \o pin \o ";\n"
                        \o "GPIO_InitStruct.Mode = GPIO_MODE_AF_PP; // or correct mode for "
                        \o sig \o "\n"
                        \o "GPIO_InitStruct.Pull = GPIO_NOPULL;\n"
                        \o "GPIO_InitStruct.Speed = GPIO_SPEED_FREQ_HIGH;\n"
                        \o "GPIO_InitStruct.Alternate = /* correct AF for " \o sig \o " */;\n"
                        \o "HAL_GPIO_Init(" \o port \o ", &GPIO_InitStruct);")
             rest == GpioNotInitialized(Tail(pins), gpio_body)
         IN  IF ~Truthy(signal) THEN rest
             ELSE IF (\E x \in {"USART", "TIM", "ADC", "GPXTI"} : Contains(sig, x))
                     /\ ~PortPinSearch(gpio_body, port, pin)
             THEN <<d>> \o rest
             ELSE rest

\* rule 12
RuleGpioNotInitialized(m, gr, h) ==
    LET gpio_body == Get(Get(h, "mx_init_bodies", EmptyDict), "GPIO", "")
    IN  IF gpio_body = ""
        THEN Appended(<<Diag("missing_mx_gpio_init",
                             "MX_GPIO_Init() not found in project sources",
                             "Ensure MX_GPIO_Init() exists and is called from main.c.")>>)
        ELSE Appended(GpioNotInitialized(Get(m, "pins", EmptyDict), gpio_body))

\* the catalog: rule i of run_all
Rule(i, m, gr, h) ==
    CASE i = 1  -> RuleExtiWithoutIrq(m, gr, h)
      [] i = 2  -> RuleDmaStreamReused(m, gr, h)
      [] i = 3  -> RuleUsartConfiguredButNoInit(m, gr, h)
      [] i = 4  -> RuleIrqEnabledButNoHandler(m, gr, h)
      [] i = 5  -> RulePinModeMismatch(m, gr, h)
      [] i = 6  -> RuleMissingHalStartFunctions(m, gr, h)
      [] i = 7  -> RuleMissingCallbacks(m, gr, h)
      [] i = 8  -> RuleClockDomainMismatch(m, gr, h)
      [] i = 9  -> RulePeripheralEnabledButUnused(m, gr, h)
      [] i = 10 -> RuleDmaIrqNotEnabledInMxDmaInit(m, gr, h)
      [] i = 11 -> RuleUsartClockNotEnabledInMxUsartInit(m, gr, h)
      [] i = 12 -> RuleGpioNotInitialized(m, gr, h)

\* a run that the rule of MX_GPIO_Init ends: rules after rule 12 are not run
RECURSIVE RunRulesUntilGpio(_, _, _, _, _)
RunRulesUntilGpio(order, ws, m, gr, h) ==
    IF order = <<>> THEN Appended(ws)
    ELSE LET r == Rule(order[1], m, gr, h)
         IN  IF r.exc # "" THEN Aborted(ws \o r.w, r.exc)
             ELSE IF order[1] = 12 THEN Appended(ws \o r.w)
             ELSE RunRulesUntilGpio(Tail(order), ws \o r.w, m, gr, h)

\* the rules in the given order, each appending to ws; an exception ends the run
RECURSIVE RunRules(_, _, _, _, _)
RunRules(order, ws, m, gr, h) ==
    IF order = <<>> THEN Appended(ws)
    ELSE LET r == Rule(order[1], m, gr, h)
         IN  IF r.exc # "" THEN Aborted(ws \o r.w, r.exc)
             ELSE RunRules(Tail(order), ws \o r.w, m, gr, h)

RuleOrder == <<1, 2, 3, 4, 5, 6, 7, 8, 9, 10, 11, 12>>

\* a run_all that drops the oldest diagnostic of the accumulator before it runs
RunAllDroppingOldest(ws, m, gr, h) ==
    RunRules(RuleOrder, IF ws = <<>> THEN ws ELSE Tail(ws), m, gr, h)

\* run_all() on an engine whose accumulator self.warnings is ws
RunAllFrom(ws, m, gr, h) == RunRules(RuleOrder, ws, m, gr, h)

\* relevance by the message alone
RelevantInMessage(w, name) == Contains(w.message, name)

\* w is relevant to name: name in w.get("message", "") or name in w.get("suggestion", "")
Relevant(w, name) == Contains(w.message, name) \/ Contains(w.suggestion, name)

\* diagnose_usart(name) on an engine whose accumulator is ws
RECURSIVE DiagnoseUsart(_, _)
DiagnoseUsart(ws, name) ==
    IF ws = <<>> THEN <<>>
    ELSE (IF Relevant(ws[1], name) THEN <<ws[1]>> ELSE <<>>) \o DiagnoseUsart(Tail(ws), name)

-----------------------------------------------------------------------------
(* The inputs: Project Models and Code Facts as the external loader and    *)
(* extractor hand them over.  A table of the model is absent or present;   *)
(* a field of a pin is absent, null or a string.                           *)

Absent == <<>>

Present(v) == <<v>>

\* a one-item dict, or the empty dict for an absent value
Field(key, opt) == IF opt = Absent THEN EmptyDict ELSE <<Item(key, opt[1])>>

Signals ==
    {"USART2_TX", "USART1_RX", "TIM3_CH2", "S_TIM1_CH1", "TIM1", "GPXTI11", "ADC1_IN0"}

SignalOpts == {Absent, Present(None)} \cup {Present(Some(sg)) : sg \in Signals}

ModeOpts == {Absent, Present(None), Present(Some("AF_PP")), Present(Some("Analog"))}

PinInfos == {Field("Signal", sg) \o Field("Mode", md) : sg \in SignalOpts, md \in ModeOpts}

\* the pieces of a model, in the order the loader lists the tables
ModelOf(pins, dma, nvic, adc, usart, tim, rcc) ==
    Field("pins", pins) \o Field("dma", dma) \o Field("nvic", nvic) \o Field("adc", adc)
    \o Field("usart", usart) \o Field("tim", tim) \o Field("rcc", rcc)

Irq(enabled) == <<Item("enabled", enabled), Item("priority", 0), Item("subpriority", 0)>>

NvicTables ==
    <<EmptyDict,
      <<Item("EXTI15_10_IRQn", Irq(TRUE)), Item("DMA1_Stream5_IRQn", Irq(TRUE))>>,
      <<Item("EXTI15_10_IRQn", Irq(FALSE)), Item("DMA1_Stream5_IRQn", Irq(TRUE))>>,
      <<Item("EXTI15_10_IRQn", Irq(TRUE)), Item("DMA1_Stream5_IRQn", Irq(FALSE))>>>>

DmaTables ==
    <<<<Item("USART2_RX", <<Item("0.Instance", "DMA1_Stream5")>>)>>,
      <<Item("USART2_RX", <<Item("0.Instance", "DMA1_Stream5")>>),
        Item("USART2_TX", <<Item("0.Instance", "DMA1_Stream5")>>)>>,
      <<Item("ADC1", <<Item("0.Mode", "DMA_CIRCULAR")>>)>>,
      EmptyDict>>

UsartBlock(name, baud) ==
    Item(name, <<Item(name \o ".BaudRate", baud), Item(name \o ".VirtualMode", "VM_ASYNC")>>)

UsartTables ==
    <<<<UsartBlock("USART2", "115200")>>,
      <<UsartBlock("USART1", "9600"), UsartBlock("USART2", "abc")>>>>

TimTable == <<Item("TIM3", <<Item("TIM3.Channel-PWM Generation2 CH2", "TIM_CHANNEL_2")>>)>>

AdcTable == <<Item("ADC1", <<Item("ADC1.SamplingTime-0", "ADC_SAMPLETIME_3CYCLES")>>)>>

\* clock tables: each frequency key absent, numeric or not numeric
RccValues(key) ==
    CASE key = "HSE_VALUE"         -> {"8000000", "abc"}
      [] key = "SYSCLKFreq_VALUE"  -> {"84000000", "8e7"}
      [] key = "APB1Freq_Value"    -> {"42000000", ""}
      [] key = "APB2Freq_Value"    -> {"4000000", "84MHz"}
      [] key = "PLLCLKFreq_Value"  -> {"168000000", "1.5"}

RccOpts(key) == {Absent} \cup {Present(v) : v \in RccValues(key)}

RccFreqTables ==
    {Field("HSE_VALUE", a) \o Field("SYSCLKFreq_VALUE", b) \o Field("APB1Freq_Value", c)
       \o Field("APB2Freq_Value", d) \o Field("PLLCLKFreq_Value", e) :
       a \in RccOpts("HSE_VALUE"), b \in RccOpts("SYSCLKFreq_VALUE"),
       c \in RccOpts("APB1Freq_Value"), d \in RccOpts("APB2Freq_Value"),
       e \in RccOpts("PLLCLKFreq_Value")}

\* clock tables with a PLL configuration
RccPllTables ==
    {Field("HSE_VALUE", a) \o Field("SYSCLKFreq_VALUE", b)
       \o <<Item("PLLM", "8"), Item("PLLN", "336"), Item("PLLP", "4")>> :
       a \in {Absent, Present("8000000"), Present("25000000")},
       b \in {Absent, Present("84000000")}}

RccGood ==
    <<Item("HSE_VALUE", "8000000"), Item("SYSCLKFreq_VALUE", "84000000"),
      Item("APB1Freq_Value", "42000000"), Item("APB2Freq_Value", "84000000")>>

\* Code Facts
GpioBody1 ==
    "void MX_GPIO_Init(void) {\n  /* PA : PA2 */\n  HAL_GPIO_Init(GPIOA, &GPIO_InitStruct);\n}"

GpioBody2 == "void MX_GPIO_Init(void) {\n  __HAL_RCC_GPIOA_CLK_ENABLE();\n}"

DmaBody1 == "void MX_DMA_Init(void) {\n  HAL_NVIC_EnableIRQ (DMA1_Stream5_IRQn);\n}"

DmaBody2 == "void MX_DMA_Init(void) {\n  __HAL_RCC_DMA1_CLK_ENABLE();\n}"

UsartBody1 == "void MX_USART2_Init(void) {\n  __HAL_RCC_USART2_CLK_ENABLE();\n}"

UsartBody2 == "void MX_USART2_Init(void) {\n  huart2.Instance = USART2;\n}"

FactsFull(gpio, dma, usart) ==
    <<Item("mx_inits", <<"GPIO", "DMA", "USART2">>),
      Item("irq_handlers", <<"EXTI15_10_IRQHandler", "DMA1_Stream5_IRQHandler">>),
      Item("hal_calls", <<"HAL_ADC_Start_IT", "HAL_GPIO_Init", "HAL_NVIC_EnableIRQ",
                          "HAL_TIM_PWM_Start", "HAL_UART_Receive_DMA">>),
      Item("callbacks", <<"HAL_ADC_ConvCpltCallback", "HAL_GPIO_EXTI_Callback",
                          "HAL_TIM_PeriodElapsedCallback">>),
      Item("mx_init_bodies", <<Item("GPIO", gpio), Item("DMA", dma), Item("USART2", usart)>>)>>

FactsPartial ==
    <<Item("mx_inits", <<"GPIO">>),
      Item("irq_handlers", <<>>),
      Item("hal_calls", <<"HAL_GPIO_Init", "HAL_USART2_Custom">>),
      Item("callbacks", <<"HAL_GPIO_EXTI_Callback">>),
      Item("mx_init_bodies", <<Item("GPIO", "")>>)>>

\* Code Facts of a project with no source files
FactsEmpty ==
    <<Item("mx_inits", <<>>), Item("irq_handlers", <<>>), Item("hal_calls", <<>>),
      Item("callbacks", <<>>), Item("mx_init_bodies", EmptyDict)>>

\* the families of inputs: <<model, code facts>>

\* a pin table alone, with and without Code Facts: one pin with every signal
\* and mode, two pins with every pair of signals
PinInputs ==
    {<<ModelOf(Present(p), Absent, Absent, Absent, Absent, Absent, Absent), h>> :
        p \in {EmptyDict}
              \cup {<<Item("PA2", a)>> : a \in PinInfos}
              \cup {<<Item("PA2", Field("Signal", a)), Item("PB10", Field("Signal", b))>> :
                      a \in SignalOpts, b \in SignalOpts},
        h \in {EmptyDict, FactsFull(GpioBody1, DmaBody1, UsartBody1)}}

\* a clock table, with and without USART blocks
ClockInputs ==
    {<<ModelOf(Absent, Absent, Absent, Absent, u, Absent, Present(r)), EmptyDict>> :
        r \in RccFreqTables \cup RccPllTables,
        u \in {Absent, Present(<<UsartBlock("USART1", "9600"), UsartBlock("USART2", "115200")>>)}}

\* USART tables for the baud check: instances of both buses in either order,
\* a block without a baud rate
BaudUsartTables ==
    {<<UsartBlock("USART1", "9600"), UsartBlock("USART2", "115200")>>,
     <<UsartBlock("USART2", "115200"), UsartBlock("USART1", "9600")>>,
     <<UsartBlock("USART3", "115200"), UsartBlock("USART6", "9600")>>,
     <<UsartBlock("USART6", "115200"),
       Item("USART3", <<Item("USART3.VirtualMode", "VM_ASYNC")>>)>>}

\* bus frequencies around eight times the baud rates, zero and none
BaudInputs ==
    {<<ModelOf(Absent, Absent, Absent, Absent, Present(u), Absent,
               Present(Field("APB1Freq_Value", a) \o Field("APB2Freq_Value", b))), EmptyDict>> :
        a \in {Absent, Present("0"), Present("921600"), Present("921604"), Present("42000000")},
        b \in {Absent, Present("0"), Present("76800"), Present("76804"), Present("84000000")},
        u \in BaudUsartTables}

\* a pin on an EXTI line
ExtiPin(pin, line) == Item(pin, <<Item("Signal", Some("GPXTI" \o line))>>)

\* pins on EXTI lines of every interrupt group, alone and in pairs
ExtiPinTables ==
    {<<ExtiPin("PC13", l)>> : l \in {"0", "4", "5", "9", "10", "12", "15"}}
    \cup {<<ExtiPin("PA12", "12"), ExtiPin("PB12", "12")>>,
          <<ExtiPin("PA4", "4"), ExtiPin("PB5", "5")>>,
          <<ExtiPin("PA10", "10"), ExtiPin("PB9", "9")>>,
          <<ExtiPin("PA0", "0"), ExtiPin("PB15", "15")>>}

\* interrupt tables: the EXTI interrupts enabled, disabled, missing, and
\* interrupts of the lines' own numbers
ExtiNvicTables ==
    {Absent,
     Present(<<Item("EXTI0_IRQn", Irq(TRUE)), Item("EXTI4_IRQn", Irq(TRUE)),
               Item("EXTI9_5_IRQn", Irq(TRUE)), Item("EXTI15_10_IRQn", Irq(TRUE))>>),
     Present(<<Item("EXTI0_IRQn", Irq(FALSE)), Item("EXTI4_IRQn", Irq(FALSE)),
               Item("EXTI9_5_IRQn", Irq(FALSE)), Item("EXTI15_10_IRQn", Irq(FALSE))>>),
     Present(<<Item("EXTI15_10_IRQn", Irq(TRUE)), Item("EXTI9_5_IRQn", Irq(FALSE)),
               Item("EXTI4_IRQn", Irq(TRUE))>>),
     Present(<<Item("EXTI0_IRQn", Irq(TRUE)), Item("EXTI9_5_IRQn", Irq(TRUE)),
               Item("EXTI15_10_IRQn", Irq(FALSE))>>),
     Present(<<Item("EXTI5_IRQn", Irq(TRUE)), Item("EXTI9_IRQn", Irq(TRUE)),
               Item("EXTI10_IRQn", Irq(TRUE)), Item("EXTI12_IRQn", Irq(TRUE)),
               Item("EXTI15_IRQn", Irq(TRUE))>>)}

ExtiInputs ==
    {<<ModelOf(Present(p), Absent, n, Absent, Absent, Absent, Absent), h>> :
        p \in ExtiPinTables, n \in ExtiNvicTables,
        h \in {EmptyDict, FactsFull(GpioBody1, DmaBody1, UsartBody1)}}

\* a DMA request on a stream
DmaRequest(req, stream) == Item(req, <<Item("0.Instance", stream), Item("0.Mode", "DMA_NORMAL")>>)

\* DMA request tables: one request, two and three on one stream in either
\* order, requests on separate streams, a request without a stream
DmaRequestTables ==
    {EmptyDict,
     <<DmaRequest("USART2_RX", "DMA1_Stream5")>>,
     <<DmaRequest("USART2_RX", "DMA1_Stream5"), DmaRequest("USART2_TX", "DMA1_Stream5")>>,
     <<DmaRequest("USART2_TX", "DMA1_Stream5"), DmaRequest("USART2_RX", "DMA1_Stream5")>>,
     <<DmaRequest("USART2_RX", "DMA1_Stream5"), DmaRequest("USART2_TX", "DMA1_Stream6")>>,
     <<DmaRequest("USART2_RX", "DMA1_Stream5"), DmaRequest("ADC1", "DMA2_Stream0"),
       DmaRequest("USART2_TX", "DMA1_Stream5")>>,
     <<DmaRequest("ADC1", "DMA1_Stream5"), DmaRequest("USART2_TX", "DMA1_Stream5"),
       DmaRequest("USART2_RX", "DMA1_Stream5")>>,
     <<DmaRequest("USART2_TX", "DMA1_Stream6"), DmaRequest("ADC1", "DMA2_Stream0"),
       DmaRequest("USART2_RX", "DMA1_Stream6"), DmaRequest("SPI1_RX", "DMA2_Stream0")>>,
     <<Item("ADC1", <<Item("0.Mode", "DMA_CIRCULAR")>>), DmaRequest("USART2_RX", "DMA1_Stream5")>>,
     <<Item("ADC1", <<Item("0.Mode", "DMA_CIRCULAR")>>)>>}

\* DMA tables against the interrupt table and the Code Facts with and
\* without a body of MX_DMA_Init
DmaInputs ==
    {<<ModelOf(Absent, Present(d), n, Absent, Absent, Absent, Absent), h>> :
        d \in DmaRequestTables,
        n \in {Absent, Present(NvicTables[2]), Present(NvicTables[4])},
        h \in {EmptyDict, FactsPartial, FactsFull(GpioBody1, DmaBody1, UsartBody1),
               FactsFull(GpioBody2, DmaBody2, UsartBody2)}}

\* models that share no pin, signal or stream, for builds in a row
ReuseModels ==
    {EmptyDict,
     ModelOf(Present(<<Item("PA2", <<Item("Signal", Some("USART2_TX")),
                                      Item("Mode", Some("AF_PP"))>>)>>),
             Absent, Absent, Absent, Absent, Absent, Absent),
     ModelOf(Present(<<Item("PB4", <<Item("Signal", Some("TIM3_CH2"))>>)>>),
             Absent, Absent, Absent, Absent, Absent, Absent),
     ModelOf(Present(<<Item("PB10", <<Item("Signal", Some("GPXTI11"))>>)>>),
             Absent, Absent, Absent, Absent, Absent, Absent),
     ModelOf(Absent, Present(<<DmaRequest("USART2_RX", "DMA1_Stream5")>>),
             Absent, Absent, Absent, Absent, Absent),
     ModelOf(Absent, Absent, Absent, Absent, Absent, Absent, Present(RccGood))}

ReuseInputs == {<<m, EmptyDict>> : m \in ReuseModels}

\* two pins, PA2 named in GpioBody1 and PB10 named in no body, with signals
\* inside and outside the families rule 12 checks, against the Code Facts
\* with the body of MX_GPIO_Init absent, empty and present
GpioInputs ==
    LET opts == {Absent, Present(Some(""))}
                \cup {Present(Some(sg)) :
                        sg \in {"USART2_TX", "SPI1_MOSI", "TIM3_CH2", "ADC1_IN0", "GPXTI11"}}
    IN  {<<ModelOf(Present(<<Item("PA2", Field("Signal", a)), Item("PB10", Field("Signal", b))>>),
                   Absent, Absent, Absent, Absent, Absent, Absent), h>> :
            a \in opts, b \in opts,
            h \in {EmptyDict, FactsEmpty, FactsPartial,
                   FactsFull(GpioBody1, DmaBody1, UsartBody1),
                   FactsFull(GpioBody2, DmaBody2, UsartBody2)}}

TwoPins ==
    <<Item("PA2", <<Item("Signal", Some("USART2_TX")), Item("Mode", Some("AF_PP"))>>),
      Item("PB10", <<Item("Signal", Some("GPXTI11"))>>)>>

\* the peripheral tables against the Code Facts
PeripheralInputs ==
    {<<ModelOf(Present(TwoPins), d, Present(NvicTables[2]), Present(a), Present(u),
               Present(t), r), h>> :
        d \in {Absent, Present(DmaTables[1]), Present(DmaTables[2])},
        a \in {EmptyDict, AdcTable},
        u \in {EmptyDict, UsartTables[1], UsartTables[2]},
        t \in {EmptyDict, TimTable},
        r \in {Absent, Present(RccGood)},
        h \in {EmptyDict, FactsPartial, FactsFull(GpioBody1, DmaBody1, UsartBody1),
               FactsFull(GpioBody2, DmaBody2, UsartBody2)}}

\* the interrupt and DMA tables against the Code Facts, with and without pins
WiringInputs ==
    {<<ModelOf(p, d, n, Absent, Present(UsartTables[1]), Absent, Present(RccGood)), h>> :
        p \in {Absent, Present(EmptyDict), Present(TwoPins)},
        d \in {Absent} \cup {Present(DmaTables[i]) : i \in 1..Len(DmaTables)},
        n \in {Absent} \cup {Present(NvicTables[i]) : i \in 1..Len(NvicTables)},
        h \in {EmptyDict, FactsFull(GpioBody1, DmaBody1, UsartBody1),
               FactsFull(GpioBody2, DmaBody2, UsartBody2)}}

\* models without pins, DMA requests and interrupts
BareInputs ==
    {<<ModelOf(p, d, n, b, b, b, r), h>> :
        p \in {Absent, Present(EmptyDict)},
        d \in {Absent, Present(EmptyDict)},
        n \in {Absent, Present(EmptyDict)},
        b \in {Absent, Present(EmptyDict)},
        r \in {Absent, Present(EmptyDict), Present(RccGood)},
        h \in {EmptyDict, FactsEmpty, FactsFull(GpioBody1, DmaBody1, UsartBody1)}}
    \cup
    {<<ModelOf(p, Absent, Absent, Present(AdcTable), Present(UsartTables[1]),
               Present(TimTable), r), h>> :
        p \in {Absent, Present(EmptyDict)},
        r \in {Absent, Present(EmptyDict)},
        h \in {EmptyDict, FactsFull(GpioBody1, DmaBody1, UsartBody1)}}

Inputs == PeripheralInputs \cup WiringInputs \cup BareInputs

\* the names diagnose_usart is asked about
DiagnoseNames == {"USART2", "CubeMX", ""}

-----------------------------------------------------------------------------
(* The program: a builder (PeripheralGraph), then an engine (RulesEngine)  *)
(* on the graph it returned and a diagnosis, or the clock analysis, as     *)
(* cli.main runs them.                                                     *)

\* calls of run_all on one engine
MaxRuns == 2

NoReturn == [op |-> "none"]

\* the state after the loader and the extractor, with a fresh builder
Start(inputs) ==
    /\ \E in \in inputs : model = in[1] /\ hal = in[2]
    /\ pc = "loaded"
    /\ g = EmptyGraph
    /\ builds = 0
    /\ warnings = <<>>
    /\ runs = <<>>
    /\ ret = NoReturn
    /\ clocks = None
    /\ exc = ""

Init == Start(Inputs)

InitPins == Start(PinInputs)

InitClock == Start(ClockInputs)

\* graph = builder.build_from_ioc(model)
Build ==
    /\ pc = "loaded"
    /\ \E r \in {BuildFromIoc(g, model)} :
           /\ g' = r.g
           /\ exc' = r.exc
           /\ pc' = IF r.exc = "" THEN "built" ELSE "failed"
    /\ builds' = builds + 1
    /\ ret' = [op |-> "build_from_ioc"]
    /\ UNCHANGED <<model, hal, warnings, runs, clocks>>

\* calls of build_from_ioc on one builder
MaxBuilds == 2

\* another model is loaded and handed to the same PeripheralGraph instance
LoadModel ==
    /\ pc = "built"
    /\ builds < MaxBuilds
    /\ model' \in ReuseModels
    /\ pc' = "loaded"
    /\ ret' = NoReturn
    /\ UNCHANGED <<hal, g, builds, warnings, runs, clocks, exc>>

\* engine = RulesEngine(model, graph, hal)
NewEngine ==
    /\ pc = "built"
    /\ pc' = "ready"
    /\ warnings' = <<>>
    /\ ret' = NoReturn
    /\ UNCHANGED <<model, hal, g, builds, runs, clocks, exc>>

\* engine.run_all()
RunAll ==
    /\ pc = "ready"
    /\ Len(runs) < MaxRuns
    /\ \E r \in {RunAllFrom(warnings, model, g, hal)} :
           /\ warnings' = r.w
           /\ exc' = r.exc
           /\ pc' = IF r.exc = "" THEN "ready" ELSE "failed"
           /\ runs' = IF r.exc = "" THEN Append(runs, r.w) ELSE runs
           /\ ret' = IF r.exc = "" THEN [op |-> "run_all", val |-> r.w]
                     ELSE [op |-> "run_all"]
    /\ UNCHANGED <<model, hal, g, builds, clocks>>

\* engine.diagnose_usart(name), the last call on the engine
Diagnose ==
    /\ pc = "ready"
    /\ \E name \in DiagnoseNames :
          ret' = [op |-> "diagnose_usart", arg |-> name, val |-> DiagnoseUsart(warnings, name)]
    /\ pc' = "diagnosed"
    /\ UNCHANGED <<model, hal, g, builds, warnings, runs, clocks, exc>>

\* ClockTreeAnalyzer(rcc).compute()
ComputeClocks ==
    /\ pc = "loaded"
    /\ clocks' = Some(Compute(Get(model, "rcc", EmptyDict)))
    /\ pc' = "clock"
    /\ ret' = [op |-> "compute"]
    /\ UNCHANGED <<model, hal, g, builds, warnings, runs, exc>>

\* ClockTreeAnalyzer(rcc).validate_usart_baud(usart)
ValidateBaud ==
    /\ pc = "clock"
    /\ ret' = [op |-> "validate_usart_baud",
               val |-> ValidateUsartBaud(Get(model, "rcc", EmptyDict),
                                         Get(model, "usart", EmptyDict))]
    /\ pc' = "clockdone"
    /\ UNCHANGED <<model, hal, g, builds, warnings, runs, clocks, exc>>

Next ==
    \/ Build
    \/ NewEngine
    \/ RunAll
    \/ Diagnose
    \/ ComputeClocks
    \/ ValidateBaud

Spec == Init /\ [][Next]_vars

SpecPins == InitPins /\ [][Next]_vars

SpecClock == InitClock /\ [][Next]_vars

SpecBaud == Start(BaudInputs) /\ [][Next]_vars

SpecExti == Start(ExtiInputs) /\ [][Next]_vars

SpecDma == Start(DmaInputs) /\ [][Next]_vars

SpecGpio == Start(GpioInputs) /\ [][Next]_vars

NextReuse ==
    \/ Next
    \/ LoadModel

SpecReuse == Start(ReuseInputs) /\ [][NextReuse]_vars

-----------------------------------------------------------------------------
(* Properties                                                              *)

\* the returned value of the last call, when it returned one
Returned(op) == ret.op = op /\ "val" \in DOMAIN ret

\* C1: run_all calls on one RulesEngine instance, the inputs unchanged, all
\* return the same diagnostic sequence (same length, order and content).
RunAllIdempotent == \A i, j \in DOMAIN runs : runs[i] = runs[j]

\* the position in the catalog of the rule that writes a rule id
RuleNo(id) ==
    CASE id = "exti_without_irq" -> 1
      [] id = "dma_stream_reused" -> 2
      [] id = "usart_no_init_call" -> 3
      [] id = "irq_no_handler" -> 4
      [] id = "pin_mode_mismatch" -> 5
      [] id = "missing_hal_start" -> 6
      [] id = "missing_callback" -> 7
      [] id = "clock_domain_mismatch" -> 8
      [] id = "unused_peripheral" -> 9
      [] id \in {"dma_irq_no_mx_dma_init", "dma_irq_not_enabled",
                 "dma_irq_not_enabled_in_mx_dma_init"} -> 10
      [] id \in {"usart_no_mx_init_body", "usart_clock_not_enabled"} -> 11
      [] id \in {"missing_mx_gpio_init", "gpio_not_initialized"} -> 12

\* C2: in the sequence a run_all call returns, a diagnostic of rule i comes
\* before every diagnostic of rule j whenever i < j in the catalog.
CatalogOrder ==
    Returned("run_all") =>
        \A i, j \in DOMAIN ret.val :
            i < j => RuleNo(ret.val[i].rule) <= RuleNo(ret.val[j].rule)

\* name occurs in s, character by character
Occurs(name, s) ==
    \E i \in 0..(Len(s) - Len(name)) :
        \A k \in 1..Len(name) : CharAt(s, i + k) = CharAt(name, k)

\* the diagnostic mentions the name the last diagnose_usart call was given
MentionsArg(w) == Occurs(ret.arg, w.message) \/ Occurs(ret.arg, w.suggestion)

\* C3: diagnose_usart(name) returns the accumulated diagnostics whose message
\* or suggestion contains name, all of them and in their order; each is an
\* element of the last run_all output, and before any run_all it returns the
\* empty sequence.
DiagnoseIsPostFilter ==
    Returned("diagnose_usart") =>
        /\ ret.val = SelectSeq(warnings, MentionsArg)
        /\ runs = <<>> => ret.val = <<>>
        /\ runs # <<>> => Range(ret.val) \subseteq Range(runs[Len(runs)])

\* a diagnosis that keeps some diagnostics and drops others
DiagnoseFilters ==
    /\ Returned("diagnose_usart")
    /\ ret.arg = "CubeMX"
    /\ ret.val # <<>>
    /\ Len(ret.val) < Len(warnings)
    /\ \E i \in DOMAIN ret.val : ~Occurs("CubeMX", ret.val[i].message)

\* C4: build_from_ioc, compute and run_all complete for every well-typed
\* model and Code Facts, a null Signal or Mode included: no call raises.
NoCallRaises == exc = ""

\* the value of a string of decimal digits
RECURSIVE DigitsValue(_)
DigitsValue(s) ==
    IF s = "" THEN 0 ELSE 10 * DigitsValue(SubSeq(s, 1, Len(s) - 1)) + DigitVal(CharAt(s, Len(s)))

AllDigits(s) == s # "" /\ \A i \in 1..Len(s) : IsDigit(CharAt(s, i))

\* the rcc table holds a non-numeric string under one of the keys the builder
\* and rule 8 read
NonNumericClock ==
    \E i \in DOMAIN ClockFreqKeys :
        LET rcc == Get(model, "rcc", EmptyDict)
        IN  Has(rcc, ClockFreqKeys[i][1]) /\ ~AllDigits(At(rcc, ClockFreqKeys[i][1]))

\* C5: with a non-numeric string in the clock table neither build_from_ioc
\* nor run_all aborts.
NonNumericClockNeverAborts == NonNumericClock => pc # "failed"

\* what compute owes for one output: the integer of a numeric string, None
\* for a missing key and for any other string
Expected(rcc, key) ==
    IF Has(rcc, key) /\ AllDigits(At(rcc, key)) THEN Some(DigitsValue(At(rcc, key))) ELSE None

\* C6: compute does not raise; each of HSE, SYSCLK, APB1, APB2, PLLCLK is the
\* integer of its key's numeric string and None when the key is missing or
\* its string is not numeric, whatever the other keys hold.
ComputeTotal ==
    pc \in {"clock", "clockdone"} =>
        /\ exc = ""
        /\ clocks # None
        /\ [i \in DOMAIN clocks[1] |-> clocks[1][i][1]]
              = <<"HSE", "SYSCLK", "APB1", "APB2", "PLLCLK">>
        /\ \A i \in DOMAIN ClockOutKeys :
              At(clocks[1], ClockOutKeys[i][1])
                  = Expected(Get(model, "rcc", EmptyDict), ClockOutKeys[i][2])

\* a clock result with a numeric and a non-numeric input side by side
ComputeMixed ==
    /\ pc = "clock"
    /\ At(clocks[1], "HSE") = None
    /\ Has(Get(model, "rcc", EmptyDict), "HSE_VALUE")
    /\ At(clocks[1], "SYSCLK") = Some(84000000)
    /\ At(clocks[1], "APB1") = None
    /\ ~Has(Get(model, "rcc", EmptyDict), "APB1Freq_Value")

\* no pins, no DMA table, no NVIC table, no parameter blocks, no Code Facts
NoOptionalInputs ==
    /\ \A t \in {"pins", "dma", "nvic", "adc", "usart", "tim"} :
          Get(model, t, EmptyDict) = EmptyDict
    /\ \A f \in {"mx_inits", "irq_handlers", "hal_calls", "callbacks"} :
          Get(hal, f, <<>>) = <<>>
    /\ Get(hal, "mx_init_bodies", EmptyDict) = EmptyDict

\* C7: with the optional inputs absent every rule contributes nothing and
\* run_all returns the empty sequence without error.
AbsentInputsNoDiagnostics ==
    (NoOptionalInputs /\ ret.op = "run_all") => (exc = "" /\ ret.val = <<>>)

\* C7, amended: with the optional inputs absent the first run_all returns,
\* without error, the three missing_callback diagnostics of rule 7 and the
\* missing_mx_gpio_init diagnostic of rule 12, in that order, and nothing of
\* the other ten rules.
AbsentInputsFourDiagnostics ==
    (NoOptionalInputs /\ ret.op = "run_all" /\ Len(runs) <= 1) =>
        /\ exc = ""
        /\ Len(runs) = 1
        /\ [i \in DOMAIN ret.val |-> ret.val[i].rule]
              = <<"missing_callback", "missing_callback", "missing_callback",
                  "missing_mx_gpio_init">>
        /\ \A i, j \in DOMAIN ret.val : i # j => ret.val[i] # ret.val[j]

\* the first run_all on an engine given nothing but a clock table
AbsentInputsRun ==
    /\ NoOptionalInputs
    /\ Has(model, "rcc")
    /\ Has(hal, "callbacks")
    /\ Returned("run_all")
    /\ Len(runs) = 1

\* zero pins, zero DMA requests, zero clock keys
BareModel ==
    \A t \in {"pins", "dma", "rcc"} : Get(model, t, EmptyDict) = EmptyDict

TimerNames == {"TIM1", "TIM3"}

ChannelNames == {"CH1", "CH2"}

\* the kind of a node, "" for a node the graph does not have
KindOf(n) == IF HasNode(g, n) THEN NodeType(g, n) ELSE ""

\* the pin carries the signal tim_ch, with or without the S_ prefix
BoundTo(info, tim, ch) ==
    Get(info, "Signal", None) \in {Some(tim \o "_" \o ch), Some("S_" \o tim \o "_" \o ch)}

\* the edge u -> v with its tag
Tagged(u, v, tag) == HasEdge(g, u, v) /\ At(At(g.edges, <<u, v>>), "type") = tag

\* the nodes of a kind
NodesOfKind(kind) == {n \in Keys(g.nodes) : KindOf(n) = kind}

ModelPins == Get(model, "pins", EmptyDict)

\* C9: in the built graph every pin bound to TIMx_CHy has its node, the node
\* TIMx of kind timer, the node TIMx_CHy of kind timer_channel and the edges
\* TIMx -> TIMx_CHy (timer_to_channel) and TIMx_CHy -> pin (channel_to_pin);
\* a TIM signal without a channel part adds no timer and no timer_channel
\* node, and the build raises nothing on its account.
TimerChannelsWired ==
    ret.op = "build_from_ioc" =>
        /\ pc = "built" =>
            /\ \A i \in DOMAIN ModelPins : \A tim \in TimerNames, ch \in ChannelNames :
                  BoundTo(ModelPins[i][2], tim, ch) =>
                      /\ KindOf(ModelPins[i][1]) = "pin"
                      /\ KindOf(tim) = "timer"
                      /\ KindOf(tim \o "_" \o ch) = "timer_channel"
                      /\ Tagged(tim, tim \o "_" \o ch, "timer_to_channel")
                      /\ Tagged(tim \o "_" \o ch, ModelPins[i][1], "channel_to_pin")
            /\ NodesOfKind("timer")
                  = {tim \in TimerNames : \E i \in DOMAIN ModelPins : \E ch \in ChannelNames :
                        BoundTo(ModelPins[i][2], tim, ch)}
            /\ NodesOfKind("timer_channel")
                  = {q[1] \o "_" \o q[2] :
                        q \in {r \in TimerNames \X ChannelNames :
                                 \E i \in DOMAIN ModelPins : BoundTo(ModelPins[i][2], r[1], r[2])}}
        /\ pc = "failed" =>
              \E i \in DOMAIN ModelPins :
                  Has(ModelPins[i][2], "Signal") /\ At(ModelPins[i][2], "Signal") = None

\* a graph built from a prefixed channel signal next to a bare timer signal
TimerChannelBuilt ==
    /\ ret.op = "build_from_ioc"
    /\ pc = "built"
    /\ \E i, j \in DOMAIN ModelPins :
          /\ BoundTo(ModelPins[i][2], "TIM1", "CH1")
          /\ Get(ModelPins[j][2], "Signal", None) = Some("TIM1")
    /\ NodesOfKind("timer_channel") = {"TIM1_CH1"}

\* the clock table gives HSE and the PLL factors and no system clock
PllConfigured ==
    LET rcc == Get(model, "rcc", EmptyDict)
    IN  /\ ~Has(rcc, "SYSCLKFreq_VALUE")
        /\ \A k \in {"HSE_VALUE", "PLLM", "PLLN", "PLLP"} : Has(rcc, k) /\ AllDigits(At(rcc, k))

\* C10: without a direct system clock value and with HSE and the PLL factors
\* M, N, P the Clock Result's SYSCLK is HSE / M * N / P.
SysclkFromPll ==
    (PllConfigured /\ pc = "clock") =>
        LET rcc == Get(model, "rcc", EmptyDict)
        IN  At(clocks[1], "SYSCLK")
              = Some(((DigitsValue(At(rcc, "HSE_VALUE")) \div DigitsValue(At(rcc, "PLLM")))
                       * DigitsValue(At(rcc, "PLLN"))) \div DigitsValue(At(rcc, "PLLP")))

\* C11: a clock table without HSE_VALUE gives the Clock Result HSE = 8000000,
\* not unknown.
HseDefaultsTo8MHz ==
    (pc = "clock" /\ ~Has(Get(model, "rcc", EmptyDict), "HSE_VALUE")) =>
        At(clocks[1], "HSE") = Some(8000000)

\* the entries of the last validate_usart_baud result whose bus frequency is
\* a positive integer
PositiveBusEntries ==
    {i \in DOMAIN ret.val : ret.val[i][2].bus_freq # None /\ ret.val[i][2].bus_freq[1] > 0}

\* C12: with an integer baud rate and a resolved bus frequency f > 0 the
\* status is ok exactly when baud < f / 8 and suspicious exactly when
\* baud >= f / 8, the division exact: 8 * baud against f.
BaudAgainstExactEighth ==
    Returned("validate_usart_baud") =>
        \A i \in PositiveBusEntries :
            LET e == ret.val[i][2]
            IN  /\ e.status = "ok" <=> 8 * e.baud < e.bus_freq[1]
                /\ e.status = "suspicious" <=> 8 * e.baud >= e.bus_freq[1]

\* C13: the status is unknown if and only if the bus frequency is unresolved
\* (None); a bus frequency of 0 is a known value, classified ok or suspicious.
UnknownOnlyForNull ==
    Returned("validate_usart_baud") =>
        \A i \in DOMAIN ret.val :
            ret.val[i][2].status = "unknown" <=> ret.val[i][2].bus_freq = None

\* the bus of an instance by its name: the secondary bus for USART1 and USART6
FeedingBus(name) == IF name = "USART1" \/ name = "USART6" THEN "APB2" ELSE "APB1"

\* the frequency the clock table gives a bus, 0 without one
TableFreq(bus) ==
    LET rcc == Get(model, "rcc", EmptyDict)
    IN  IF Has(rcc, bus \o "Freq_Value") THEN DigitsValue(At(rcc, bus \o "Freq_Value")) ELSE 0

ModelUsart == Get(model, "usart", EmptyDict)

\* C14: the bus of a USART depends on its name alone, APB2 for USART1 and
\* USART6 and APB1 for every other name, whatever the order of the tables,
\* and validate_usart_baud and rule 8 use the same bus: each result entry
\* carries that bus and its frequency, and rule 8 reports an instance exactly
\* when that bus is below the low-bus threshold, quoting its frequency.
BusByNameOnly ==
    /\ Returned("validate_usart_baud") =>
          \A i \in DOMAIN ret.val :
              /\ ret.val[i][2].bus = FeedingBus(ret.val[i][1])
              /\ ret.val[i][2].bus_freq = At(clocks[1], FeedingBus(ret.val[i][1]))
    /\ (Returned("run_all") /\ Len(runs) = 1) =>
          /\ \A i \in DOMAIN ModelUsart :
                LET name == ModelUsart[i][1]
                    f    == TableFreq(FeedingBus(name))
                IN  (\E k \in DOMAIN ret.val :
                        /\ ret.val[k].rule = "clock_domain_mismatch"
                        /\ ret.val[k].message
                              = name \o " running on very low bus clock (" \o IntToStr(f) \o " Hz)")
                    <=> f < LowBusHz
          /\ Cardinality({k \in DOMAIN ret.val : ret.val[k].rule = "clock_domain_mismatch"})
                = Cardinality({i \in DOMAIN ModelUsart :
                                  TableFreq(FeedingBus(ModelUsart[i][1])) < LowBusHz})

\* an APB1 instance listed before an APB2 instance, both buses known and apart
BusesResolved ==
    /\ Returned("validate_usart_baud")
    /\ Len(ret.val) = 2
    /\ ret.val[1][1] = "USART3" /\ ret.val[1][2].bus = "APB1"
    /\ ret.val[2][1] = "USART6" /\ ret.val[2][2].bus = "APB2"
    /\ ret.val[1][2].bus_freq = Some(921600)
    /\ ret.val[2][2].bus_freq = Some(84000000)

\* the EXTI lines of the interrupt controller
ExtiLines == 0..15

\* the interrupt of a line under the fixed grouping
MappedIrq(n) ==
    CASE n \in 0..4   -> "EXTI" \o NatToStr(n) \o "_IRQn"
      [] n \in 5..9   -> "EXTI9_5_IRQn"
      [] n \in 10..15 -> "EXTI15_10_IRQn"

\* the interrupt table lists the interrupt as enabled
IrqEnabled(irq) ==
    LET nvic == Get(model, "nvic", EmptyDict)
    IN  \E i \in DOMAIN nvic : nvic[i][1] = irq /\ Get(nvic[i][2], "enabled", FALSE) = TRUE

\* the lines that have an exti node in the graph
NodeLines == {n \in ExtiLines : KindOf("EXTI" \o NatToStr(n)) = "exti"}

\* the exti_without_irq diagnostics of the last run_all about the node of line n
ExtiDiags(n) ==
    {k \in DOMAIN ret.val :
        /\ ret.val[k].rule = "exti_without_irq"
        /\ StartsWith(ret.val[k].message, "EXTI" \o NatToStr(n) \o " mapped to ")}

\* C15: rule 1 maps the line n of an exti node to one interrupt (0..4 to
\* EXTIn_IRQn, 5..9 to EXTI9_5_IRQn, 10..15 to EXTI15_10_IRQn) and emits one
\* exti_without_irq diagnostic for the node, naming that interrupt, exactly
\* when the interrupt is missing from the table or not enabled; with the
\* interrupt enabled the node gives none.
ExtiRule ==
    (Returned("run_all") /\ Len(runs) = 1) =>
        /\ \A n \in NodeLines :
              /\ Cardinality(ExtiDiags(n)) = IF IrqEnabled(MappedIrq(n)) THEN 0 ELSE 1
              /\ \A k \in ExtiDiags(n) :
                    /\ Occurs(" but " \o MappedIrq(n) \o " is not enabled in NVIC",
                              ret.val[k].message)
                    /\ ret.val[k].suggestion
                          = "Enable " \o MappedIrq(n) \o " in NVIC in CubeMX or via HAL."
        /\ Cardinality({k \in DOMAIN ret.val : ret.val[k].rule = "exti_without_irq"})
              = Cardinality({n \in NodeLines : ~IrqEnabled(MappedIrq(n))})

\* lines 9 and 10 with the interrupt of 10..15 enabled and that of 5..9
\* disabled: one diagnostic, for line 9
ExtiGroupsApart ==
    /\ Returned("run_all")
    /\ Len(runs) = 1
    /\ NodeLines = {9, 10}
    /\ IrqEnabled("EXTI15_10_IRQn")
    /\ ~IrqEnabled("EXTI9_5_IRQn")
    /\ Cardinality(ExtiDiags(9)) = 1
    /\ ExtiDiags(10) = {}

ModelDma == Get(model, "dma", EmptyDict)

\* the streams the DMA table assigns
Streams == {Get(ModelDma[i][2], "0.Instance", "") : i \in DOMAIN ModelDma} \ {""}

\* the requests the DMA table assigns to a stream
RequestsOn(stream) ==
    {ModelDma[i][1] : i \in {k \in DOMAIN ModelDma :
                                Get(ModelDma[k][2], "0.Instance", "") = stream}}

\* the dma_stream_reused diagnostics of the last run_all about a stream
ReuseDiags(stream) ==
    {k \in DOMAIN ret.val :
        /\ ret.val[k].rule = "dma_stream_reused"
        /\ StartsWith(ret.val[k].message, stream \o " used by multiple DMA requests: ")}

\* the names a dma_stream_reused message lists after its colon
NamesListed(message) == Range(Split(Split1(message, ": ")[2], ", "))

\* C16: rule 2 emits one dma_stream_reused diagnostic for each stream with two
\* or more requests, naming the stream and every one of its requests, and
\* none for a stream with one request; which streams are reported and which
\* names are listed is fixed by the assignments, not by their order.
DmaReuseRule ==
    (Returned("run_all") /\ Len(runs) = 1) =>
        /\ \A st \in Streams :
              /\ Cardinality(ReuseDiags(st)) = IF Cardinality(RequestsOn(st)) >= 2 THEN 1 ELSE 0
              /\ \A k \in ReuseDiags(st) : NamesListed(ret.val[k].message) = RequestsOn(st)
        /\ Cardinality({k \in DOMAIN ret.val : ret.val[k].rule = "dma_stream_reused"})
              = Cardinality({st \in Streams : Cardinality(RequestsOn(st)) >= 2})

\* two requests on one stream with the request of another stream between them
DmaReuseReported ==
    /\ Returned("run_all")
    /\ Len(runs) = 1
    /\ Len(ModelDma) = 3
    /\ ModelDma[1][1] = "USART2_RX"
    /\ ModelDma[3][1] = "USART2_TX"
    /\ RequestsOn("DMA1_Stream5") = {"USART2_RX", "USART2_TX"}
    /\ RequestsOn("DMA2_Stream0") = {"ADC1"}
    /\ Cardinality(ReuseDiags("DMA1_Stream5")) = 1
    /\ ReuseDiags("DMA2_Stream0") = {}

\* the peripheral names whose init routine the entry point invokes
InvokedInits == Range(Get(hal, "mx_inits", <<>>))

\* the usart_no_init_call diagnostics of the last run_all about an instance
NoInitDiags(name) ==
    {k \in DOMAIN ret.val :
        /\ ret.val[k].rule = "usart_no_init_call"
        /\ StartsWith(ret.val[k].message, name \o " configured in .ioc but ")}

\* C17: rule 3 emits a usart_no_init_call diagnostic for a configured USART X
\* exactly when the invoked-init set, which holds the peripheral name X for a
\* call of MX_X_Init(), does not record X.
NoInitRule ==
    (Returned("run_all") /\ Len(runs) = 1) =>
        \A i \in DOMAIN ModelUsart :
            NoInitDiags(ModelUsart[i][1]) # {} <=> ModelUsart[i][1] \notin InvokedInits

\* the Code Facts hold no body of MX_DMA_Init
NoDmaBody == ~Has(Get(hal, "mx_init_bodies", EmptyDict), "DMA")

\* the diagnostics of the last run_all under one of the rule ids
DiagsOf(ids) == {k \in DOMAIN ret.val : ret.val[k].rule \in ids}

\* C18: without a body of MX_DMA_Init rule 10 emits one dma_irq_no_mx_dma_init
\* diagnostic for a non-empty DMA table, however many requests it has, and
\* nothing for an empty one; it emits no dma_irq_not_enabled and no
\* dma_irq_not_enabled_in_mx_dma_init diagnostic.
NoDmaBodyOneDiagnostic ==
    (Returned("run_all") /\ Len(runs) = 1 /\ NoDmaBody) =>
        /\ Cardinality(DiagsOf({"dma_irq_no_mx_dma_init"}))
              = IF ModelDma = EmptyDict THEN 0 ELSE 1
        /\ DiagsOf({"dma_irq_not_enabled", "dma_irq_not_enabled_in_mx_dma_init"}) = {}

\* three requests, none with its interrupt enabled, and bodies of other init
\* routines only
NoDmaBodyThreeRequests ==
    /\ Returned("run_all")
    /\ Len(runs) = 1
    /\ NoDmaBody
    /\ Has(hal, "mx_init_bodies")
    /\ Len(ModelDma) = 3
    /\ ~Has(model, "nvic")
    /\ Cardinality(DiagsOf({"dma_irq_no_mx_dma_init"})) = 1

\* the items of a dict, their order put aside
ItemSet(d) == {<<d[i][1], Range(d[i][2])>> : i \in DOMAIN d}

\* the content of a graph: its nodes and edges with their attributes
Content(gr) == [nodes |-> ItemSet(gr.nodes), edges |-> ItemSet(gr.edges)]

\* C19: the graph build_from_ioc(model) returns has the nodes, kinds,
\* attributes and edges of a build of that model on a fresh builder, whatever
\* builds came before it.
GraphOfModelAlone ==
    (ret.op = "build_from_ioc" /\ pc = "built") =>
        Content(g) = Content(BuildFromIoc(EmptyGraph, model).g)

\* the orders the six steps can be taken in
StepOrders == Permutations(DOMAIN BuildOrder)

\* C20: the six steps of the build commute: taken in any order on the same
\* model they leave the same nodes with the same kinds and attributes and the
\* same edges with the same tags and metadata.
StepsCommute ==
    (ret.op = "build_from_ioc" /\ pc = "built" /\ builds = 1) =>
        \A order \in StepOrders :
            Content(RunSteps(order, EmptyGraph, model).g) = Content(g)

\* the catalog order with the rules at two positions exchanged
Swapped(i, j) ==
    [k \in DOMAIN RuleOrder |->
        IF k = i THEN RuleOrder[j] ELSE IF k = j THEN RuleOrder[i] ELSE RuleOrder[k]]

\* orders of evaluation: every exchange of two rules, and the catalog reversed
RuleOrders ==
    {Swapped(i, j) : i, j \in DOMAIN RuleOrder}
    \cup {[k \in DOMAIN RuleOrder |-> RuleOrder[Len(RuleOrder) + 1 - k]]}

\* how often a diagnostic occurs in a sequence
Count(ws, d) == Cardinality({k \in DOMAIN ws : ws[k] = d})

SameMultiset(a, b) ==
    /\ Len(a) = Len(b)
    /\ \A d \in Range(a) \cup Range(b) : Count(a, d) = Count(b, d)

\* the first run_all on an engine has returned or raised
FirstRunDone == ret.op = "run_all" /\ Len(runs) = IF exc = "" THEN 1 ELSE 0

FirstRunRaises == FirstRunDone /\ exc # ""


\* C22: in the built graph every pin with a bound signal has its node of kind
\* pin, the node of kind signal named by the signal and carrying the pin's
\* Mode, and the edge signal -> pin tagged signal_to_pin, whatever convention
\* the signal's name also matches.
SignalNodesKept ==
    (ret.op = "build_from_ioc" /\ pc = "built") =>
        \A i \in DOMAIN ModelPins :
            LET pin    == ModelPins[i][1]
                info   == ModelPins[i][2]
                signal == Get(info, "Signal", None)
            IN  Truthy(signal) =>
                    /\ KindOf(pin) = "pin"
                    /\ KindOf(signal[1]) = "signal"
                    /\ Get(At(g.nodes, signal[1]), "mode", None) = Get(info, "Mode", None)
                    /\ Tagged(signal[1], pin, "signal_to_pin")


\* the body of MX_DMA_Init in the Code Facts, "" without one
DmaBody == Get(Get(hal, "mx_init_bodies", EmptyDict), "DMA", "")

\* what rule 10 owes the i-th request of the DMA table when the body exists:
\* the rule id of its one diagnostic, "" for none
WiringVerdict(i) ==
    LET instance == Get(ModelDma[i][2], "0.Instance", "")
        irq      == instance \o "_IRQn"
    IN  IF instance = "" THEN ""
        ELSE IF ~IrqEnabled(irq) THEN "dma_irq_not_enabled"
        ELSE IF ~CallSearch(DmaBody, "HAL_NVIC_EnableIRQ", Some(irq))
        THEN "dma_irq_not_enabled_in_mx_dma_init"
        ELSE ""

NonEmpty(id) == id # ""

WiringId(id) == id \in {"dma_irq_not_enabled", "dma_irq_not_enabled_in_mx_dma_init"}

\* C23: with a body of MX_DMA_Init rule 10 emits, request by request, at most
\* one diagnostic: none without a resolved instance, dma_irq_not_enabled alone
\* when the interrupt is missing or not enabled, otherwise
\* dma_irq_not_enabled_in_mx_dma_init alone when the body lacks the call, else
\* none; and it never emits dma_irq_no_mx_dma_init.
DmaWiringPrecedence ==
    (Returned("run_all") /\ Len(runs) = 1 /\ ~NoDmaBody) =>
        /\ DiagsOf({"dma_irq_no_mx_dma_init"}) = {}
        /\ SelectSeq([k \in DOMAIN ret.val |-> ret.val[k].rule], WiringId)
              = SelectSeq([i \in DOMAIN ModelDma |-> WiringVerdict(i)], NonEmpty)

\* two requests with a body that enables no interrupt: one stream's interrupt
\* is enabled in the table, the other's is missing from it
DmaWiringBothKinds ==
    /\ Returned("run_all")
    /\ Len(runs) = 1
    /\ ~NoDmaBody
    /\ Len(ModelDma) = 2
    /\ WiringVerdict(1) = "dma_irq_not_enabled_in_mx_dma_init"
    /\ WiringVerdict(2) = "dma_irq_not_enabled"
    /\ Cardinality(DiagsOf({"dma_irq_not_enabled"})) = 1
    /\ Cardinality(DiagsOf({"dma_irq_not_enabled_in_mx_dma_init"})) = 1


\* the body of MX_GPIO_Init in the Code Facts, "" without one
GpioBody == Get(Get(hal, "mx_init_bodies", EmptyDict), "GPIO", "")

\* the signal belongs to the USART, timer, ADC or external-interrupt family
InFamily(sig) == \E x \in {"USART", "TIM", "ADC", "GPXTI"} : Occurs(x, sig)

\* the gpio_not_initialized diagnostics of the last run_all about a pin
GpioDiags(pin) ==
    {k \in DiagsOf({"gpio_not_initialized"}) :
        StartsWith(ret.val[k].message, pin \o " used for ")}

\* C24: without a body of MX_GPIO_Init, absent or empty, rule 12 emits exactly
\* one missing_mx_gpio_init and no gpio_not_initialized diagnostic; with a
\* body it emits no missing_mx_gpio_init, and at most one gpio_not_initialized
\* per pin, only for pins with a signal of the USART, timer, ADC or
\* external-interrupt family.
GpioRule ==
    (Returned("run_all") /\ Len(runs) = 1) =>
        IF GpioBody = ""
        THEN /\ Cardinality(DiagsOf({"missing_mx_gpio_init"})) = 1
             /\ DiagsOf({"gpio_not_initialized"}) = {}
        ELSE /\ DiagsOf({"missing_mx_gpio_init"}) = {}
             /\ DiagsOf({"gpio_not_initialized"})
                   = UNION {GpioDiags(ModelPins[i][1]) : i \in DOMAIN ModelPins}
             /\ \A i \in DOMAIN ModelPins :
                   LET signal == Get(ModelPins[i][2], "Signal", None)
                       about  == GpioDiags(ModelPins[i][1])
                   IN  /\ Cardinality(about) <= 1
                       /\ about # {} => (Truthy(signal) /\ InFamily(signal[1]))

\* a body that names no pin, a pin with a USART signal and a pin with a signal
\* of no checked family: one diagnostic, about the first pin
GpioOnePinReported ==
    /\ Returned("run_all")
    /\ Len(runs) = 1
    /\ GpioBody # ""
    /\ Get(ModelPins[1][2], "Signal", None) = Some("USART2_TX")
    /\ Get(ModelPins[2][2], "Signal", None) = Some("SPI1_MOSI")
    /\ Cardinality(GpioDiags("PA2")) = 1
    /\ DiagsOf({"gpio_not_initialized"}) = GpioDiags("PA2")


\* the clock_domain_mismatch diagnostics of the last run_all about a USART
LowBusDiags(name) ==
    {k \in DiagsOf({"clock_domain_mismatch"}) :
        StartsWith(ret.val[k].message, name \o " running on ")}

\* C25: rule 8 emits one clock_domain_mismatch diagnostic for a configured
\* USART exactly when the clock table holds the frequency of its feeding bus
\* and that frequency is below the low-bus threshold; without the bus's key in
\* the table it emits nothing for that USART.
LowBusOnlyWhenKnown ==
    (Returned("run_all") /\ Len(runs) = 1) =>
        \A i \in DOMAIN ModelUsart :
            LET name == ModelUsart[i][1]
                key  == FeedingBus(name) \o "Freq_Value"
                rcc  == Get(model, "rcc", EmptyDict)
            IN  Cardinality(LowBusDiags(name))
                   = IF Has(rcc, key) /\ DigitsValue(At(rcc, key)) < LowBusHz THEN 1 ELSE 0


\* a is a prefix of b
IsPrefix(a, b) == Len(a) <= Len(b) /\ SubSeq(b, 1, Len(a)) = a

\* C26: a run_all call and a diagnose_usart call leave the Project Model, the
\* Dependency Graph and the Code Facts as they were; run_all extends the
\* diagnostics accumulator, its previous contents an unchanged prefix, also
\* when a rule raises, and diagnose_usart leaves the accumulator as it was.
RulesOnlyAppend ==
    [][(pc = "ready" /\ ret'.op \in {"run_all", "diagnose_usart"}) =>
          /\ model' = model
          /\ g' = g
          /\ hal' = hal
          /\ ret'.op = "run_all" => IsPrefix(warnings, warnings')
          /\ ret'.op = "diagnose_usart" => warnings' = warnings]_vars

\* a second run_all on an engine whose accumulator held diagnostics
SecondRunExtends ==
    /\ Returned("run_all")
    /\ Len(runs) = 2
    /\ runs[1] # <<>>
    /\ IsPrefix(runs[1], warnings)
    /\ Len(warnings) > Len(runs[1])
    /\ Has(model, "pins")
    /\ g.nodes # <<>>

=============================================================================
